---------------------------- MODULE Spec2Model ----------------------------
(***************************************************************************)
(* A model of the discord-agent-gateway core: the bot pool (BotPool and    *)
(* BotPoolItem, services/discord/bot_pool.py), the reconciliation          *)
(* scheduler (AgentScheduler, services/discord/scheduler.py) and the       *)
(* record store it polls (database/repository.py).                         *)
(*                                                                         *)
(* Concurrency is asyncio's: one task runs at a time and keeps running     *)
(* until it suspends at an await that really waits (a held lock, the       *)
(* gateway's close(), a pending task, gather, sleep).  `run` names the     *)
(* task that is between two suspension points; every step of a task        *)
(* requires that no other task is.                                         *)
(***************************************************************************)
EXTENDS Naturals, FiniteSets, Sequences, TLC

\* ------------------------------------------------------------------ bounds
NumAgents == 2
MaxCapacity == 2
MaxInst == 3

AgentIds == 1..NumAgents
InstIds == 1..MaxInst

\* two credentials: the pool only compares them
Tokens == {"tokA", "tokB"}

\* the tasks of the process: two callers of the pool, the loop tasks that
\* AgentScheduler.start creates, and the server task that owns the scheduler
Callers == {"c1", "c2"}
Loops == {"l1", "l2"}
Srv == "srv"
Tasks == Callers \cup Loops \cup {Srv}

\* ------------------------------------------------------------- data model
NoId == 0
NoInst == 0
Free == "free"

\* agents/__init__.py: the registry, and the types a row of the store may name
AGENTS == {"echo", "llm"}
AgentTypes == {"echo", "unknown"}

\* database/models.py AgentTable, the fields the core reads.  respond_to_dm
\* stands for every field other than the credential and the behaviour type.
AgentTable == [id : AgentIds, discord_token : Tokens, respond_to_dm : BOOLEAN,
               agent_type : AgentTypes]

\* the records a caller passes and the rows the store holds: for each identity
\* every credential, and with the first credential every other field value
Records ==
    {r \in AgentTable :
        r.discord_token = "tokA" \/ (r.respond_to_dm /\ r.agent_type = "echo")}

\* a record that was never persisted: agent.id is None
Unsaved == [id |-> NoId, discord_token |-> "tokA", respond_to_dm |-> TRUE, agent_type |-> "echo"]

\* the record slot of an item the pool no longer refers to
NoAgent == [id |-> NoId, discord_token |-> "none", respond_to_dm |-> FALSE, agent_type |-> "none"]

\* BotPoolItem.__init__: bot, task and agent_instance are None, _running False.
\* aid is the identity the item was built for (0: the slot is unused); bot is
\* none, client (a discord.Client not closed) or closed; task is the background
\* task of bot.start: none, run, failed (it raised: login or connection
\* failure); sp is where a stop() coroutine of this item is suspended (none,
\* close, await); child tells whether that coroutine is one of shutdown_all's
\* gathered children; live tells that the pool has built the item and has not
\* yet destroyed it (removed it from the mapping, or dropped it on a failed
\* start).
BotPoolItem(agent) ==
    [aid |-> agent.id, agent |-> agent, running |-> FALSE, bot |-> "none",
     task |-> "none", sp |-> "none", child |-> FALSE, live |-> TRUE]

Unused == [aid |-> NoId, agent |-> NoAgent, running |-> FALSE, bot |-> "none",
           task |-> "none", sp |-> "none", child |-> FALSE, live |-> FALSE]

VARIABLES
    max_concurrent_bots,  \* settings.max_concurrent_bots
    bots,                 \* BotPool.bots: identity -> instance (NoInst: no key)
    lock,                 \* BotPool._lock: the task holding it, or Free
    items,                \* every BotPoolItem ever constructed, by instance
    nextInst,             \* the next instance to construct
    log,                  \* the last line the pool logged: info, or the warning/error
    run,                  \* the task now running between two suspension points
    pc,                   \* where each task is
    op,                   \* the pool operation a task is suspended in
    arg,                  \* the record passed to that operation
    tgt,                  \* the item whose stop() the task awaits
    cancelReq,            \* task.cancel() was called and not yet delivered
    ret,                  \* where the task continues after the pool call
    running,              \* AgentScheduler.running
    task,                 \* AgentScheduler.task: a loop task, or NoTask
    store,                \* the agents table: identity -> its enabled row, or NoAgent
    enabled_agents,       \* _sync_agents: the rows read by a loop task's cycle
    current_bots,         \* _sync_agents: get_all_bots() as read by the cycle
    todo,                 \* _sync_agents: the identities the running for-loop has left
    agent_id,             \* _sync_agents: the identity being restarted
    before,               \* for each identity, the record its item held when the
                          \* cycle in flight began (NoAgent: no item)
    handling,             \* the call of handle_message in flight, or the last one
    conversations,        \* LLMAgent.conversations: chat_id -> the turns stored
    effects,              \* what the call of handle_message has done so far
    executing,            \* the calls of LLMAgent.execute made on one agent
    calls_made,           \* per chat_id, the calls with use_history made so far
    memories,             \* per agent object, its self.conversations
    splitting             \* the call of split_message and of estimate_chunks

poolVars == <<bots, lock, items, nextInst, log>>
taskVars == <<run, pc, op, arg, tgt, cancelReq, ret>>
schedVars == <<running, task, store, enabled_agents, current_bots, todo, agent_id, before>>
cycleVars == <<enabled_agents, current_bots, todo, agent_id, before>>
msgVars == <<handling, conversations, effects>>
llmVars == <<executing, calls_made, memories>>
vars == <<max_concurrent_bots, poolVars, taskVars, schedVars, msgVars, llmVars, splitting>>

NoTask == "none"

\* the users, guilds and channels of the events an item's client receives
BotUser == 11
UserIds == {BotUser, 12}
GuildIds == {21, 22}
ChannelIds == {31, 32}

\* str() of a Discord id
str(id) == ToString(id)

\* message.channel: its class, its id and its guild (a DMChannel has none)
Channels ==
    {[kind |-> "DMChannel", id |-> 30, guild |-> NoId]}
    \cup [kind : {"TextChannel", "Thread", "VoiceChannel"}, id : ChannelIds,
          guild : GuildIds]

\* message.reference: absent, or with .resolved None, a
\* DeletedReferencedMessage, or the Message replied to
NoReference == [resolved |-> "absent", author |-> NoId]
References ==
    {NoReference}
    \cup [resolved : {"None", "DeletedReferencedMessage"}, author : {NoId}]
    \cup [resolved : {"Message"}, author : UserIds]

\* discord.Message, the fields should_respond and handle_message read
Messages ==
    [author : UserIds, channel : Channels, mentions : SUBSET UserIds,
     reference : References]

\* the row of the item that receives the event, the fields should_respond
\* reads: the whitelists are JSON arrays of ids written as strings
Agents ==
    [respond_to_dm : BOOLEAN,
     guild_whitelist : SUBSET {str(g) : g \in GuildIds},
     channel_whitelist : SUBSET {str(c) : c \in ChannelIds}]

\* no call of handle_message yet
NoCall ==
    [pc |-> "idle",
     message |-> [author |-> BotUser,
                  channel |-> [kind |-> "DMChannel", id |-> 30, guild |-> NoId],
                  mentions |-> {}, reference |-> NoReference],
     bot_user_id |-> str(BotUser),
     agent |-> [respond_to_dm |-> FALSE, guild_whitelist |-> {},
                channel_whitelist |-> {}],
     agent_instance |-> "echo",
     responds |-> FALSE,
     chunks |-> 0,
     chunk |-> 0]

\* self.conversations = {}
NoTurns == [c \in {} |-> <<>>]

NoEffects ==
    [typing |-> FALSE,      \* the typing indicator was shown
     executed |-> FALSE,    \* agent_instance.execute was called
     sent |-> <<>>,         \* the sends that went through, in order
     delivered |-> <<>>,    \* the chunks those sends carried, by their place
     failed |-> FALSE,      \* an exception reached `except Exception`
     apologies |-> 0]       \* the error replies attempted

\* the chat ids handle_message makes, one per author
ChatIds == {"dm-" \o str(u) : u \in UserIds}

\* the calls of execute that may be in flight on one agent at once
Execs == {"e1", "e2"}

\* no call of execute
NoExec ==
    [pc |-> "idle", chat_id |-> "none", content |-> 0, use_history |-> FALSE,
     result |-> "none"]

NoRows == [a \in AgentIds |-> NoAgent]
NoBots == [a \in AgentIds |-> NoInst]

PoolIds == {a \in AgentIds : bots[a] # NoInst}
Size == Cardinality(PoolIds)

\* ------------------------------------------------------------------- init
Init ==
    /\ max_concurrent_bots \in 1..MaxCapacity
    /\ bots = [a \in AgentIds |-> NoInst]
    /\ lock = Free
    /\ items = [i \in InstIds |-> Unused]
    /\ nextInst = 1
    /\ log = "none"
    /\ run = Free
    /\ pc = [t \in Tasks |-> IF t \in Loops THEN "unborn" ELSE "idle"]
    /\ op = [t \in Tasks |-> "none"]
    /\ arg = [t \in Tasks |-> NoAgent]
    /\ tgt = [t \in Tasks |-> NoInst]
    /\ cancelReq = [t \in Tasks |-> FALSE]
    /\ ret = [t \in Tasks |-> "none"]
    /\ running = FALSE
    /\ task = NoTask
    /\ store = NoRows
    /\ enabled_agents = [l \in Loops |-> NoRows]
    /\ current_bots = [l \in Loops |-> NoBots]
    /\ todo = [l \in Loops |-> {}]
    /\ agent_id = [l \in Loops |-> NoId]
    /\ before = NoRows
    /\ handling = NoCall
    /\ conversations = NoTurns
    /\ effects = NoEffects
    /\ executing = [e \in Execs |-> NoExec]
    /\ calls_made = [c \in ChatIds |-> 0]
    /\ memories = [i \in InstIds |-> NoTurns]
    /\ splitting = [pc |-> "idle", content |-> <<>>, max_length |-> 1,
                    chunks |-> <<>>, estimate |-> 0]

\* ------------------------------------------------------- the pool's lock
\* `async with self._lock`: the caller goes on only with the lock free, and
\* waits while it is held.  asyncio.Lock is not reentrant.
\* (a pool without mutual exclusion, to test C3)
NoLock == TRUE

LockFree == lock = Free

\* ------------------------------------------ how a pool call ends for a task
\* With outcome o the task goes on at k; a scheduler task whose call raised
\* goes to its loop's except clause, and a cancelled task ends (a cancelled
\* caller is idle again).
AfterCall(t, o, k) ==
    IF o = "cancelled" THEN (IF t \in Callers THEN "idle" ELSE "done")
    ELSE IF o = "raised" /\ t \in Loops THEN "except"
    ELSE k

Return(t, o, k) ==
    /\ pc' = [pc EXCEPT ![t] = AfterCall(t, o, k)]
    /\ run' = IF AfterCall(t, o, k) \in {"idle", "done"} THEN Free ELSE t
    /\ op' = [op EXCEPT ![t] = "none"]
    /\ arg' = [arg EXCEPT ![t] = NoAgent]
    /\ tgt' = [tgt EXCEPT ![t] = NoInst]
    /\ ret' = [ret EXCEPT ![t] = "none"]
    /\ cancelReq' = [cancelReq EXCEPT ![t] = FALSE]

\* the task suspends inside pool operation o at pc p, to go on at k later
Suspend(t, o, a, i, p, k) ==
    /\ pc' = [pc EXCEPT ![t] = p]
    /\ run' = Free
    /\ op' = [op EXCEPT ![t] = o]
    /\ arg' = [arg EXCEPT ![t] = a]
    /\ tgt' = [tgt EXCEPT ![t] = i]
    /\ ret' = [ret EXCEPT ![t] = k]
    /\ UNCHANGED cancelReq

\* ------------------------------------------------------------ BotPoolItem
\* create_agent raises ValueError for a type the registry does not hold
create_agent_ok(agent) == agent.agent_type \in AGENTS

\* BotPoolItem.start on a fresh item whose agent can be created: the client is
\* built, bot.start runs in a background task, _running is set.  Nothing in
\* start() awaits, so it runs to its end without suspending.
Started(agent) ==
    [BotPoolItem(agent) EXCEPT !.running = TRUE, !.bot = "client", !.task = "run"]

\* an item the pool has removed from the mapping: nothing refers to it any
\* more; the model keeps its _running flag
Dropped(it) == [Unused EXCEPT !.running = it.running]

\* (a start() that sets _running before it fails, to test C11)
StartedAnyway(agent) == [BotPoolItem(agent) EXCEPT !.running = TRUE]

\* BotPoolItem.start when create_agent raises: the client was built, _running
\* stays False, the error is re-raised; the pool drops the item.
FailedStart(agent) == Dropped(BotPoolItem(agent))

\* BotPoolItem.stop from `await self.bot.close()` on, for the outcome of
\* close(): "raise": the error is logged and swallowed, _running is not reset;
\* otherwise the task is cancelled and awaited.  A task that has raised by
\* then (bot.start failed to log in or lost the connection: "failed")
\* re-raises at the await (swallowed too, _running not reset); a task that
\* has returned makes the await return at once ("ended"); a task still
\* pending suspends the stop at the await ("pending").
AfterClose(it, outcome) ==
    IF outcome = "raise" THEN [it EXCEPT !.sp = "none"]
    ELSE IF outcome = "failed" \/ it.task = "failed"
         THEN [it EXCEPT !.sp = "none", !.bot = "closed", !.task = "failed"]
    ELSE IF outcome = "ended"
         THEN [it EXCEPT !.sp = "none", !.bot = "closed", !.task = "none", !.running = FALSE]
    ELSE [it EXCEPT !.sp = "await", !.bot = "closed"]

\* the awaited task ends cancelled: CancelledError is caught, _running reset
AfterAwait(it) ==
    [it EXCEPT !.sp = "none", !.task = "none", !.running = FALSE]

CloseOutcomes == {"raise", "failed", "ended", "pending"}

\* ---------------------------------------------------------------- BotPool
\* (a pool that does not look for an existing item, to test C1 and C5)
NeverExists(agent) == FALSE

AlreadyExists(agent) == bots[agent.id] # NoInst

\* (a capacity check that is off by one, to test C2)
OverFull == Size > max_concurrent_bots

PoolFull == Size >= max_concurrent_bots

\* (a token check that never sees a change, to test C37)
NeverChanged(it, agent) == FALSE

\* `agent.discord_token != bot_item.agent.discord_token`
TokenChanged(it, agent) == it.agent.discord_token # agent.discord_token

\* init_new_bot(agent) by task t, which goes on at k.  From the lock to the
\* return nothing suspends (BotPoolItem.start awaits nothing), so the call is
\* one step.
init_new_bot(t, a, k) ==
    /\ a.id # NoId
    /\ LockFree
    /\ lock' = Free
    /\ IF AlreadyExists(a) THEN
            /\ log' = "exists"
            /\ Return(t, "exists", k)
            /\ UNCHANGED <<bots, items, nextInst>>
       ELSE IF PoolFull THEN
            /\ log' = "full"
            /\ Return(t, "full", k)
            /\ UNCHANGED <<bots, items, nextInst>>
       ELSE /\ nextInst \in InstIds
            /\ nextInst' = nextInst + 1
            /\ IF create_agent_ok(a)
               THEN /\ items' = [items EXCEPT ![nextInst] = Started(a)]
                    /\ bots' = [bots EXCEPT ![a.id] = nextInst]
                    /\ log' = "info"
                    /\ Return(t, "ok", k)
               ELSE /\ items' = [items EXCEPT ![nextInst] = FailedStart(a)]
                    /\ bots' = bots
                    /\ log' = "raised"
                    /\ Return(t, "raised", k)
    /\ UNCHANGED <<max_concurrent_bots, splitting, msgVars, llmVars, running, task, store>>

\* init_new_bot with agent.id None: logged, nothing else; update_bot the same
no_id(t, a, o) ==
    /\ a.id = NoId
    /\ log' = "no_id"
    /\ UNCHANGED <<max_concurrent_bots, splitting, msgVars, llmVars, bots, lock, items, nextInst, taskVars, running, task, store>>

\* update_bot calling init_new_bot(agent): the inner `async with self._lock`
\* finds the lock held, by update_bot itself, and the task waits for it
NestedInit(t, a, k) == Suspend(t, "update", a, NoInst, "wait", k)

\* what stop_bot and update_bot do once bot_item.stop() on item i has
\* returned, the items then being `its`: both delete the key; stop_bot
\* returns, update_bot calls init_new_bot
AfterItemStop(t, o, a, i, its, k) ==
    /\ bots' = [bots EXCEPT ![its[i].aid] = NoInst]
    /\ items' = [its EXCEPT ![i] = Dropped(@)]
    /\ nextInst' = nextInst
    /\ IF o = "stop"
       THEN lock' = Free /\ log' = "info" /\ Return(t, "ok", k)
       ELSE lock' = t /\ log' = log /\ NestedInit(t, a, k)

\* bot_item.stop() called by stop_bot or update_bot on item i: a no-op when
\* the item is not running, else it suspends in `await self.bot.close()`
ItemStop(t, o, a, i, k) ==
    IF ~items[i].running
    THEN AfterItemStop(t, o, a, i, items, k)
    ELSE /\ items' = [items EXCEPT ![i].sp = "close"]
         /\ lock' = t
         /\ Suspend(t, o, a, i, "close", k)
         /\ UNCHANGED <<bots, nextInst, log>>

stop_bot(t, id, k) ==
    /\ LockFree
    /\ IF bots[id] = NoInst
       THEN /\ lock' = Free /\ log' = "absent"
            /\ Return(t, "absent", k)
            /\ UNCHANGED <<bots, items, nextInst>>
       ELSE ItemStop(t, "stop", NoAgent, bots[id], k)
    /\ UNCHANGED <<max_concurrent_bots, splitting, msgVars, llmVars, running, task, store>>

update_bot(t, a, k) ==
    /\ a.id # NoId
    /\ LockFree
    /\ LET i == bots[a.id] IN
       IF i = NoInst
       THEN /\ lock' = t
            /\ NestedInit(t, a, k)
            /\ UNCHANGED <<bots, items, nextInst, log>>
       ELSE IF TokenChanged(items[i], a)
       THEN ItemStop(t, "update", a, i, k)
       ELSE /\ items' = [items EXCEPT ![i].agent = a]
            /\ lock' = Free /\ log' = "info"
            /\ Return(t, "updated", k)
            /\ UNCHANGED <<bots, nextInst>>
    /\ UNCHANGED <<max_concurrent_bots, splitting, msgVars, llmVars, running, task, store>>

\* the items of the mapping
PoolInsts == {bots[a] : a \in PoolIds}

\* shutdown_all under the lock: one stop() per item, gathered.  With no item
\* gather returns at once.  A child whose item is not running returns at its
\* first step; the others suspend in close().
shutdown_all(t, k) ==
    /\ LockFree
    /\ IF PoolInsts = {}
       THEN /\ lock' = Free /\ log' = "info"
            /\ Return(t, "ok", k)
            /\ UNCHANGED <<bots, items, nextInst>>
       ELSE /\ items' = [i \in InstIds |->
                          IF i \in PoolInsts /\ items[i].running
                          THEN [items[i] EXCEPT !.sp = "close", !.child = TRUE]
                          ELSE items[i]]
            /\ lock' = t
            /\ Suspend(t, "shutdown", NoAgent, NoInst, "gather", k)
            /\ UNCHANGED <<bots, nextInst, log>>
    /\ UNCHANGED <<max_concurrent_bots, splitting, msgVars, llmVars, running, task, store>>

\* shutdown_all once gather has every child's result: the mapping is cleared.
\* A gather that was cancelled raises CancelledError instead, once its
\* children are done; the lock is released and the mapping is left as it is.
Children == {i \in InstIds : items[i].child}

\* (a shutdown_all without self.bots.clear(), to test C15)
shutdown_keeps(t) ==
    /\ run = Free /\ pc[t] \in {"gather", "gather_c"} /\ Children = {}
    /\ ~(pc[t] = "gather" /\ cancelReq[t])
    /\ lock' = Free
    /\ UNCHANGED <<bots, items>>
    /\ log' = "info"
    /\ Return(t, IF pc[t] = "gather" THEN "ok" ELSE "cancelled", ret[t])
    /\ UNCHANGED <<nextInst, max_concurrent_bots, splitting, msgVars, llmVars, running, task, store>>

shutdown_gathered(t) ==
    /\ run = Free /\ pc[t] \in {"gather", "gather_c"} /\ Children = {}
    /\ ~(pc[t] = "gather" /\ cancelReq[t])
    /\ lock' = Free
    /\ IF pc[t] = "gather"
       THEN /\ bots' = [a \in AgentIds |-> NoInst]
            /\ items' = [i \in InstIds |->
                           IF i \in PoolInsts THEN Dropped(items[i]) ELSE items[i]]
            /\ log' = "info"
            /\ Return(t, "ok", ret[t])
       ELSE /\ UNCHANGED <<bots, items>>
            /\ log' = "info"
            /\ Return(t, "cancelled", ret[t])
    /\ UNCHANGED <<nextInst, max_concurrent_bots, splitting, msgVars, llmVars, running, task, store>>

\* the task that awaits item i's stop() directly
Stopper(i) == {t \in Tasks : tgt[t] = i /\ pc[t] \in {"close", "await"}}

\* `await self.bot.close()` of item i returns or raises
close_returns(i, outcome) ==
    /\ run = Free /\ items[i].sp = "close"
    /\ LET it == AfterClose(items[i], outcome) IN
       IF items[i].child
       THEN /\ items' = [items EXCEPT ![i] =
                           IF it.sp = "none" THEN [it EXCEPT !.child = FALSE] ELSE it]
            /\ UNCHANGED <<bots, lock, nextInst, log, taskVars>>
       ELSE \E t \in Stopper(i) :
            /\ ~cancelReq[t]
            /\ IF it.sp = "await"
               THEN /\ items' = [items EXCEPT ![i] = it]
                    /\ pc' = [pc EXCEPT ![t] = "await"]
                    /\ UNCHANGED <<bots, lock, nextInst, log, run, op, arg, tgt,
                                   cancelReq, ret>>
               ELSE AfterItemStop(t, op[t], arg[t], i, [items EXCEPT ![i] = it], ret[t])
    /\ UNCHANGED <<max_concurrent_bots, splitting, msgVars, llmVars, running, task, store>>

\* `await self.task` of item i ends: the task was cancelled, the
\* CancelledError is caught.  A cancellation of the awaiting task itself
\* arrives as the same CancelledError and is caught with it.
task_awaited(i) ==
    /\ run = Free /\ items[i].sp = "await"
    /\ LET it == AfterAwait(items[i]) IN
       IF items[i].child
       THEN /\ items' = [items EXCEPT ![i] = [it EXCEPT !.child = FALSE]]
            /\ UNCHANGED <<bots, lock, nextInst, log, taskVars>>
       ELSE \E t \in Stopper(i) :
            AfterItemStop(t, op[t], arg[t], i, [items EXCEPT ![i] = it], ret[t])
    /\ UNCHANGED <<max_concurrent_bots, splitting, msgVars, llmVars, running, task, store>>

\* the background task of a live item raises: bot.start failed to log in or
\* lost the connection for good
bot_task_fails(i) ==
    /\ run = Free
    /\ items[i].live /\ items[i].task = "run" /\ items[i].sp # "await"
    /\ items' = [items EXCEPT ![i].task = "failed"]
    /\ UNCHANGED <<max_concurrent_bots, splitting, msgVars, llmVars, bots, lock, nextInst, log, taskVars, running, task, store>>

\* ----------------------------------------------------------- cancellation
\* task.cancel() on a suspended task.  A task suspended in `await self.task`
\* forwards the request to the awaited task, which is being cancelled
\* already: the request is lost in the except clause that follows.
Cancellable == {"top", "wait", "close", "gather", "sleep"}

\* (a gather that shields its children from the cancellation, to test C16)
ShieldChildren == items

\* a cancelled gather cancels its children: a child suspended in close() ends
\* with the CancelledError; one suspended in `await self.task` catches it
CancelChildren ==
    [i \in InstIds |->
        IF items[i].child /\ items[i].sp = "close"
        THEN [items[i] EXCEPT !.sp = "none", !.child = FALSE]
        ELSE items[i]]

\* CancelledError is raised in task t at the await it is suspended in.  It is
\* no Exception, so no `except Exception` catches it; each `async with`
\* releases the lock it holds on the way out.
Cancelled(t) ==
    /\ run = Free /\ pc[t] \in Cancellable
    /\ \/ /\ pc[t] = "wait"
          /\ lock' = Free
          /\ log' = log
          /\ Return(t, "cancelled", ret[t])
          /\ UNCHANGED <<bots, items>>
       \/ /\ pc[t] = "close"
          /\ items' = [items EXCEPT ![tgt[t]].sp = "none"]
          /\ lock' = Free
          /\ log' = log
          /\ Return(t, "cancelled", ret[t])
          /\ UNCHANGED bots
       \/ /\ pc[t] = "gather"
          /\ items' = CancelChildren
          /\ pc' = [pc EXCEPT ![t] = "gather_c"]
          /\ cancelReq' = [cancelReq EXCEPT ![t] = FALSE]
          /\ UNCHANGED <<bots, lock, log, run, op, arg, tgt, ret>>
       \/ /\ pc[t] \in {"top", "sleep"}
          /\ Return(t, "cancelled", ret[t])
          /\ UNCHANGED <<bots, lock, items, log>>
    /\ UNCHANGED <<nextInst, max_concurrent_bots, splitting, msgVars, llmVars, running, task, store>>

\* ------------------------------------------------- callers of the pool
\* Any task of the process may call the pool: the scheduler, the server's
\* shutdown, an embedding application.  A caller makes one call at a time,
\* with any record, and may be cancelled by its owner while it is suspended
\* (wait_for's timeout around shutdown_all, the scheduler's stop around a
\* cycle's pool call).
Idle(t) == run = Free /\ pc[t] = "idle"

call_init(t, a) ==
    /\ Idle(t) /\ (no_id(t, a, "init") \/ init_new_bot(t, a, "idle"))
    /\ UNCHANGED cycleVars

call_stop(t, id) ==
    /\ Idle(t) /\ stop_bot(t, id, "idle")
    /\ UNCHANGED cycleVars

call_update(t, a) ==
    /\ Idle(t) /\ (no_id(t, a, "update") \/ update_bot(t, a, "idle"))
    /\ UNCHANGED cycleVars

call_shutdown(t) ==
    /\ Idle(t) /\ shutdown_all(t, "idle")
    /\ UNCHANGED cycleVars

call_gathered(t) == shutdown_gathered(t) /\ UNCHANGED cycleVars

cancel(t) == Cancelled(t) /\ UNCHANGED cycleVars

\* the awaits inside an item's stop() come back
item_closed(i, o) == close_returns(i, o) /\ UNCHANGED cycleVars

item_awaited(i) == task_awaited(i) /\ UNCHANGED cycleVars

Next ==
    \/ \E t \in Callers :
          \/ \E a \in Records \cup {Unsaved} : call_init(t, a)
          \/ \E id \in AgentIds : call_stop(t, id)
          \/ \E a \in Records \cup {Unsaved} : call_update(t, a)
          \/ call_shutdown(t)
          \/ call_gathered(t)
          \/ cancel(t)
    \/ \E i \in InstIds :
          \/ \E o \in CloseOutcomes : item_closed(i, o)
          \/ item_awaited(i)

Spec == Init /\ [][Next]_vars

\* ------------------------------------------------------- the agents table
\* The setup script and the slash commands write the table at any time: a row
\* is created, edited, enabled, disabled or deleted.  get_all_enabled reads the
\* enabled rows.  A cycle reads the table once, at its start: a write made
\* while a cycle is in flight is seen by the next cycle, as if it were made
\* after the cycle, and is modelled so.
get_all_enabled == store

InCycle(l) == pc[l] \notin {"unborn", "top", "sleep", "done"}

store_write(a, r) ==
    /\ run = Free
    /\ \A l \in Loops : ~InCycle(l)
    /\ r = NoAgent \/ r.id = a
    /\ store[a] # r
    /\ store' = [store EXCEPT ![a] = r]
    /\ UNCHANGED <<max_concurrent_bots, splitting, msgVars, llmVars, poolVars, taskVars, running, task, cycleVars>>

\* --------------------------------------------------------- AgentScheduler
Ids(rows) == {a \in AgentIds : rows[a] # NoAgent}

enabled_agent_ids(l) == Ids(enabled_agents[l])

current_bot_ids(l) == {a \in AgentIds : current_bots[l][a] # NoInst}

\* get_all_bots: a copy of the mapping
get_all_bots == bots

\* the locals of a cycle are gone when _sync_agents is left
Forget(l) ==
    /\ enabled_agents' = [enabled_agents EXCEPT ![l] = NoRows]
    /\ current_bots' = [current_bots EXCEPT ![l] = NoBots]
    /\ todo' = [todo EXCEPT ![l] = {}]
    /\ agent_id' = [agent_id EXCEPT ![l] = NoId]
    /\ before' = NoRows

\* a step of the loop task inside a cycle that calls nothing: it goes on at p
Goto(l, p) ==
    /\ pc' = [pc EXCEPT ![l] = p]
    /\ UNCHANGED <<max_concurrent_bots, splitting, msgVars, llmVars, poolVars, run, op, arg, tgt, cancelReq, ret,
                   running, task, store>>

\* _run_loop is entered, or resumed after the sleep: `while self.running`,
\* then _sync_agents up to its first for loop.  The read of the table may
\* raise (store unreachable).
run_loop(l, fetch) ==
    /\ run = Free /\ pc[l] \in {"top", "sleep"} /\ ~cancelReq[l]
    /\ UNCHANGED <<max_concurrent_bots, splitting, msgVars, llmVars, poolVars, op, arg, tgt, cancelReq, ret,
                   running, task, store>>
    /\ IF ~running
       THEN /\ pc' = [pc EXCEPT ![l] = "done"]
            /\ run' = Free
            /\ UNCHANGED cycleVars
       ELSE /\ run' = l
            /\ IF fetch = "raise"
               THEN /\ pc' = [pc EXCEPT ![l] = "except"]
                    /\ UNCHANGED cycleVars
               ELSE /\ pc' = [pc EXCEPT ![l] = "sync_new"]
                    /\ enabled_agents' = [enabled_agents EXCEPT ![l] = get_all_enabled]
                    /\ current_bots' = [current_bots EXCEPT ![l] = get_all_bots]
                    /\ todo' = [todo EXCEPT ![l] = Ids(get_all_enabled) \ PoolIds]
                    /\ before' = [a \in AgentIds |->
                                    IF bots[a] = NoInst THEN NoAgent
                                    ELSE items[bots[a]].agent]
                    /\ UNCHANGED agent_id

\* `for agent_id in new_agent_ids: await self.bot_pool.init_new_bot(agent)`,
\* in the order the set yields; after it, the for loop over the removed ones
sync_new(l) ==
    /\ run = l /\ pc[l] = "sync_new"
    /\ UNCHANGED <<enabled_agents, current_bots, agent_id, before>>
    /\ IF todo[l] = {}
       THEN /\ todo' = [todo EXCEPT ![l] = current_bot_ids(l) \ enabled_agent_ids(l)]
            /\ Goto(l, "sync_rem")
       ELSE \E a \in todo[l] :
            /\ todo' = [todo EXCEPT ![l] = @ \ {a}]
            /\ init_new_bot(l, enabled_agents[l][a], "sync_new")

\* `for agent_id in removed_agent_ids: await self.bot_pool.stop_bot(agent_id)`;
\* after it, the for loop over the identities both enabled and in the pool
sync_rem(l) ==
    /\ run = l /\ pc[l] = "sync_rem"
    /\ UNCHANGED <<enabled_agents, current_bots, agent_id, before>>
    /\ IF todo[l] = {}
       THEN /\ todo' = [todo EXCEPT ![l] = enabled_agent_ids(l) \cap current_bot_ids(l)]
            /\ Goto(l, "sync_chk")
       ELSE \E a \in todo[l] :
            /\ todo' = [todo EXCEPT ![l] = @ \ {a}]
            /\ stop_bot(l, a, "sync_rem")

\* the token check of one identity: get_bot reads the mapping as it is now;
\* with a changed token stop_bot is called, init_new_bot to follow; with the
\* same token nothing is done
sync_chk(l) ==
    /\ run = l /\ pc[l] = "sync_chk"
    /\ UNCHANGED <<enabled_agents, current_bots, before>>
    /\ IF todo[l] = {}
       THEN /\ UNCHANGED <<todo, agent_id>>
            /\ Goto(l, "end")
       ELSE \E a \in todo[l] :
            /\ todo' = [todo EXCEPT ![l] = @ \ {a}]
            /\ IF bots[a] # NoInst /\ TokenChanged(items[bots[a]], enabled_agents[l][a])
               THEN /\ agent_id' = [agent_id EXCEPT ![l] = a]
                    /\ stop_bot(l, a, "restart")
               ELSE /\ UNCHANGED agent_id
                    /\ Goto(l, "sync_chk")

\* the second half of a restart: `await self.bot_pool.init_new_bot(agent)`
restart(l) ==
    /\ run = l /\ pc[l] = "restart"
    /\ UNCHANGED <<enabled_agents, current_bots, todo, before>>
    /\ agent_id' = [agent_id EXCEPT ![l] = NoId]
    /\ init_new_bot(l, enabled_agents[l][agent_id[l]], "sync_chk")

\* _sync_agents returns (finally: db.close()) and the loop sleeps
sync_end(l) ==
    /\ run = l /\ pc[l] = "end"
    /\ pc' = [pc EXCEPT ![l] = "sleep"]
    /\ run' = Free
    /\ Forget(l)
    /\ UNCHANGED <<max_concurrent_bots, splitting, msgVars, llmVars, poolVars, op, arg, tgt, cancelReq, ret,
                   running, task, store>>

\* (a loop without the except clause, to test C8: the error ends the task)
loop_dies(l) ==
    /\ run = l /\ pc[l] = "except"
    /\ pc' = [pc EXCEPT ![l] = "done"]
    /\ run' = Free
    /\ Forget(l)
    /\ UNCHANGED <<max_concurrent_bots, splitting, msgVars, llmVars, poolVars, op, arg, tgt, cancelReq, ret,
                   running, task, store>>

\* `except Exception` of _run_loop: the error of the cycle is logged, and the
\* loop sleeps
loop_except(l) ==
    /\ run = l /\ pc[l] = "except"
    /\ pc' = [pc EXCEPT ![l] = "sleep"]
    /\ run' = Free
    /\ Forget(l)
    /\ UNCHANGED <<max_concurrent_bots, splitting, msgVars, llmVars, poolVars, op, arg, tgt, cancelReq, ret,
                   running, task, store>>

\* the CancelledError of stop()'s task.cancel() is raised in the loop task
loop_cancelled(l) ==
    /\ cancelReq[l]
    /\ Cancelled(l)
    /\ Forget(l)

\* asyncio.create_task: a task object that is not in use
NewTask == CHOOSE l \in Loops : pc[l] \in {"unborn", "done"}

\* (a start() without `if self.running: return`, to test C9)
start_again ==
    /\ Idle(Srv)
    /\ \E l \in Loops : pc[l] \in {"unborn", "done"}
    /\ running' = TRUE
    /\ task' = NewTask
    /\ pc' = [pc EXCEPT ![NewTask] = "top"]
    /\ UNCHANGED <<max_concurrent_bots, splitting, msgVars, llmVars, poolVars, run, op, arg, tgt, cancelReq, ret,
                   store, cycleVars>>

\* AgentScheduler.start, called by the server: a second start while running
\* is logged and ignored
start ==
    /\ Idle(Srv)
    /\ IF running
       THEN UNCHANGED <<running, task, pc>>
       ELSE /\ \E l \in Loops : pc[l] \in {"unborn", "done"}
            /\ running' = TRUE
            /\ task' = NewTask
            /\ pc' = [pc EXCEPT ![NewTask] = "top"]
    /\ UNCHANGED <<max_concurrent_bots, splitting, msgVars, llmVars, poolVars, run, op, arg, tgt, cancelReq, ret,
                   store, cycleVars>>

\* task.cancel(): a task that is done is left alone; the request to a task
\* suspended in `await self.task` of an item's stop() is passed on to that
\* task, whose CancelledError the stop() catches; else the CancelledError is
\* raised in the task at the await it is suspended in
CancelRequested(l) == pc[l] \in Cancellable

\* AgentScheduler.stop up to `await self.task`
stop ==
    /\ Idle(Srv)
    /\ IF ~running
       THEN UNCHANGED <<running, pc, cancelReq>>
       ELSE /\ running' = FALSE
            /\ IF task = NoTask
               THEN UNCHANGED <<pc, cancelReq>>
               ELSE /\ cancelReq' = [cancelReq EXCEPT ![task] = CancelRequested(task)]
                    /\ pc' = [pc EXCEPT ![Srv] = "join"]
    /\ UNCHANGED <<max_concurrent_bots, splitting, msgVars, llmVars, poolVars, run, op, arg, tgt, ret, task, store,
                   cycleVars>>

\* (a scheduler stop() that does not await its loop task, to test C39)
stop_returns_early ==
    /\ run = Free /\ pc[Srv] = "join"
    /\ pc' = [pc EXCEPT ![Srv] = "idle"]
    /\ UNCHANGED <<max_concurrent_bots, splitting, msgVars, llmVars, poolVars, run, op, arg, tgt, cancelReq, ret,
                   running, task, store, cycleVars>>

\* `await self.task` of stop() returns once the loop task is done
stopped ==
    /\ run = Free /\ pc[Srv] = "join" /\ pc[task] = "done"
    /\ pc' = [pc EXCEPT ![Srv] = "idle"]
    /\ UNCHANGED <<max_concurrent_bots, splitting, msgVars, llmVars, poolVars, run, op, arg, tgt, cancelReq, ret,
                   running, task, store, cycleVars>>

SchedNext ==
    \/ \E a \in AgentIds : \E r \in Records \cup {NoAgent} : store_write(a, r)
    \/ start
    \/ stop
    \/ stopped
    \/ \E l \in Loops :
          \/ \E f \in {"rows", "raise"} : run_loop(l, f)
          \/ sync_new(l)
          \/ sync_rem(l)
          \/ sync_chk(l)
          \/ restart(l)
          \/ sync_end(l)
          \/ loop_except(l)
          \/ loop_cancelled(l)
    \/ \E i \in InstIds :
          \/ \E o \in CloseOutcomes : item_closed(i, o)
          \/ item_awaited(i)

SchedSpec == Init /\ [][SchedNext]_vars

\* ========================================================== the properties
\* An item exists from its creation in init_new_bot until the pool drops it.
Exists(i) == items[i].live

\* C1: in every reachable state at most one item exists per identity: every
\* entry of the mapping is an existing item of its own identity, and two
\* existing items never have the same identity.
C1_OneItemPerIdentity ==
    /\ \A a \in AgentIds :
          bots[a] # NoInst => Exists(bots[a]) /\ items[bots[a]].aid = a
    /\ \A i, j \in InstIds :
          Exists(i) /\ Exists(j) /\ items[i].aid = items[j].aid => i = j

\* C1's case: a start was refused for an identity whose item is the only one
\* of the pool and the last of several instances created
C1_Witness ==
    /\ log = "exists"
    /\ Size = 1
    /\ \E a \in AgentIds : bots[a] = MaxInst

\* C2: the mapping never holds more items than max_concurrent_bots, and a
\* start made with the pool at capacity (for an identity not in it) leaves
\* the mapping as it is and creates no item.
C2_Capacity ==
    /\ [](Size <= max_concurrent_bots)
    /\ [][\A t \in Callers : \A a \in Records :
            (/\ Size >= max_concurrent_bots
             /\ bots[a.id] = NoInst
             /\ call_init(t, a))
            => UNCHANGED <<bots, items, nextInst>>]_vars

\* C2's case: the pool is at capacity and the last call was a refused start
C2_Witness ==
    /\ log = "full"
    /\ Size = max_concurrent_bots

\* a task is inside a critical section of the pool (in the body of an
\* `async with self._lock`), suspended at an await
Inside(t) == pc[t] \in {"wait", "close", "await", "gather", "gather_c"}

\* C3: the four operations are serialized by the one lock: a task is inside
\* a critical section only if it holds the lock, so no two are inside at a
\* time, also with a task suspended at an await of an item's stop(); and
\* while a task holds the lock the mapping is changed by that task only.
C3_Serialized ==
    /\ [](\A t \in Tasks : Inside(t) <=> lock = t)
    /\ [][lock # Free /\ bots' # bots => pc'[lock] # pc[lock]]_vars

\* C3's case: a stop is suspended in `await self.task`, holding the lock,
\* with another item in the pool that another caller may want to change
C3_Witness ==
    \E t \in Callers :
        /\ pc[t] = "await" /\ lock = t
        /\ Size = 2

\* C5: a start for an identity that has an item changes nothing: the mapping
\* keeps the item of the first call, no item is created, nothing is started.
C5_Idempotent ==
    [][\A t \in Callers : \A a \in Records :
         (bots[a.id] # NoInst /\ call_init(t, a))
         => /\ UNCHANGED <<bots, items, nextInst>>
            /\ log' = "exists"]_vars

\* C5's case: the second start was refused, the first call's item is running
C5_Witness ==
    /\ log = "exists"
    /\ \E a \in AgentIds : bots[a] # NoInst /\ items[bots[a]].running

\* ------------------------------------------------- the reconciliation cycle
\* a loop task has run a cycle to its end: every command of _sync_agents has
\* returned, none has raised, the locals are still there
CycleDone(l) == pc[l] = "end"

\* identity x had an item when the cycle of l began, and is enabled
Kept(l, x) == before[x] # NoAgent /\ enabled_agents[l][x] # NoAgent

\* the record of x read by the cycle differs in the credential only from the
\* record x's item held when the cycle began
Rotated(l, x) ==
    /\ Kept(l, x)
    /\ before[x].discord_token # enabled_agents[l][x].discord_token
    /\ [before[x] EXCEPT !.discord_token = enabled_agents[l][x].discord_token]
          = enabled_agents[l][x]

\* the record of x read by the cycle differs in the DM flag only from the
\* record x's item held when the cycle began
Edited(l, x) ==
    /\ Kept(l, x)
    /\ before[x].respond_to_dm # enabled_agents[l][x].respond_to_dm
    /\ [before[x] EXCEPT !.respond_to_dm = enabled_agents[l][x].respond_to_dm]
          = enabled_agents[l][x]

\* C4: at the end of a complete cycle the identities of the pool are the
\* enabled identities the cycle read, or, the pool being at its capacity
\* ceiling, some of them.
C4_Convergence ==
    \A l \in Loops :
        CycleDone(l) =>
            \/ PoolIds = enabled_agent_ids(l)
            \/ PoolIds \subseteq enabled_agent_ids(l) /\ Size = max_concurrent_bots

\* C6: at the end of a complete cycle an identity whose credential alone was
\* changed has a new item: another instance than before, running, holding the
\* record the cycle read; and the old instance is not running any more.
C6_RestartOnRotation ==
    \A l \in Loops : \A x \in AgentIds :
        CycleDone(l) /\ Rotated(l, x) =>
            /\ bots[x] # NoInst
            /\ bots[x] # current_bots[l][x]
            /\ items[bots[x]].agent = enabled_agents[l][x]
            /\ items[bots[x]].running
            /\ ~items[current_bots[l][x]].running

\* C7: at the end of a complete cycle an identity whose credential is
\* unchanged and whose DM flag was changed has the item it had, and the item
\* holds the record the cycle read, with the new flag.
C7_EditedInPlace ==
    \A l \in Loops : \A x \in AgentIds :
        CycleDone(l) /\ Edited(l, x) =>
            /\ bots[x] = current_bots[l][x]
            /\ items[bots[x]].agent = enabled_agents[l][x]

\* C8: a cycle that raises does not end the loop: from the except clause the
\* loop goes to its sleep; from the sleep, the scheduler running, to a new
\* cycle (whose read of the table may raise again); and a loop task ends only
\* when the scheduler has been stopped.
C8_LoopSurvives ==
    [][\A l \in Loops :
         /\ pc[l] = "except" => pc'[l] \in {"except", "sleep"}
         /\ pc[l] = "sleep" /\ running /\ pc'[l] # "sleep"
               => pc'[l] \in {"sync_new", "except"}
         /\ pc[l] # "done" /\ pc'[l] = "done" => ~running]_vars

\* C8's case: a pool command of the last cycle raised, and the loop, having
\* slept, is in a new cycle
C8_Witness ==
    \E l \in Loops : pc[l] = "sync_new" /\ running /\ log = "raised"

\* a loop task is alive: created and not done
Alive(l) == pc[l] \notin {"unborn", "done"}

\* C9: whatever start() and stop() calls are made, at most one loop task is
\* alive, so at most one cycle is in flight.
C9_OneLoop ==
    /\ Cardinality({l \in Loops : Alive(l)}) <= 1
    /\ Cardinality({l \in Loops : InCycle(l)}) <= 1

\* C9's case: the scheduler was stopped and started again (the pool has an
\* item of an earlier loop), the new loop task has not run yet
C9_Witness ==
    /\ running /\ Size > 0
    /\ \E l \in Loops : pc[l] = "top"

\* stop() has been called and has returned
Stopped == ~running /\ pc[Srv] = "idle"

\* C10: stop() returns only when the loop task is done, and the pool is not
\* changed after that; a sleeping loop ends at the cancellation without
\* another cycle; a cycle in flight finishes the command it is in (an item
\* whose stop it awaits is removed) and then observes the cancellation (the
\* loop does not go on to its sleep once stop() has been called).
C10_StopJoins ==
    /\ [](Stopped => \A l \in Loops : ~Alive(l))
    /\ [][Stopped => UNCHANGED <<bots, lock, items, nextInst>>]_vars
    /\ [][\A l \in Loops :
            cancelReq[l] /\ pc[l] = "sleep" => pc'[l] \in {"sleep", "done"}]_vars
    /\ [][\A l \in Loops :
            pc[l] = "close" /\ pc'[l] = "done" => bots'[items[tgt[l]].aid] = NoInst]_vars
    /\ [][~running => \A l \in Loops : pc'[l] = "sleep" => pc[l] = "sleep"]_vars

\* ------------------------------------------------------ failures in the pool
\* C11: a start whose item fails to start (the pool has room, the identity
\* is new, create_agent raises) leaves the new item not running and out of
\* the mapping, which is unchanged; the error reaches the caller; the lock is
\* free afterwards.
C11_FailedStart ==
    [][\A t \in Callers : \A a \in Records :
         (/\ a.agent_type \notin AGENTS
          /\ bots[a.id] = NoInst
          /\ Size < max_concurrent_bots
          /\ call_init(t, a))
         => /\ bots' = bots
            /\ ~items'[nextInst].running
            /\ ~items'[nextInst].live
            /\ \A i \in InstIds \ {nextInst} : items'[i] = items[i]
            /\ log' = "raised"
            /\ lock' = Free]_vars

\* C11's case: a start has just failed, with another item in the pool, and
\* the lock is free for the next operation
C11_Witness ==
    /\ log = "raised"
    /\ Size = 1
    /\ lock = Free

\* ------------------------------------------------- the connection attempt
\* bot.start(token) runs in the item's background task, after start() has
\* returned and init_new_bot has inserted the item: a login refused (invalid
\* token) or a network failure ends that task with the error.
connect_fails(i) == bot_task_fails(i) /\ UNCHANGED cycleVars

ConnNext ==
    \/ Next
    \/ \E i \in InstIds : connect_fails(i)

ConnSpec == Init /\ [][ConnNext]_vars

\* the connection attempt of item i has failed
ConnectFailed(i) == items[i].task = "failed"

\* C12: no member of the pool is an item whose connection attempt has
\* failed.
C12_NoFailedMember ==
    \A a \in AgentIds : bots[a] # NoInst => ~ConnectFailed(bots[a])

\* ------------------------------------------------------------ stop_bot
\* task t returns from stop_bot in this step: at once, or when the last await
\* of the item's stop() comes back (a cancelled call does not return)
StopReturns(t) ==
    \/ \E id \in AgentIds : call_stop(t, id) /\ pc'[t] = "idle"
    \/ /\ op[t] = "stop" /\ pc[t] \in {"close", "await"} /\ pc'[t] = "idle"
       /\ \E i \in InstIds : \E o \in CloseOutcomes : item_closed(i, o) \/ item_awaited(i)

\* the identity a stop_bot of task t is about, as the step begins
StopTarget(t, id) ==
    \/ Idle(t) /\ call_stop(t, id)
    \/ pc[t] \in {"close", "await"} /\ tgt[t] # NoInst /\ items[tgt[t]].aid = id

\* C13: when stop_bot(id) returns, id is not in the mapping, and the item it
\* had is not running; the other entries are as they were; with no item for
\* id the call changes neither the mapping nor any item.
C13_StopBot ==
    [][\A t \in Callers : \A id \in AgentIds :
         StopReturns(t) /\ StopTarget(t, id) =>
            /\ bots'[id] = NoInst
            /\ \A a \in AgentIds \ {id} : bots'[a] = bots[a]
            /\ IF bots[id] = NoInst
               THEN items' = items /\ log' = "absent"
               ELSE /\ ~items'[bots[id]].running
                    /\ \A i \in InstIds \ {bots[id]} : items'[i] = items[i]]_vars

\* ----------------------------------------------------------- update_bot
\* C14: update_bot(record) returns with one of three outcomes.  Identity
\* absent: the call returns, and with room in the pool and a known type a new
\* item holding the record is in the mapping.  Credential changed: when the
\* old item's stop() is over the call returns, with another instance holding
\* the new record in the mapping.  Credential unchanged: the call returns
\* with the same instance, whose record is the new one, nothing else changed.
\* In no case does the call wait for the lock it holds itself.
C14_Update ==
    /\ [](\A t \in Tasks : ~(pc[t] = "wait" /\ lock = t))
    /\ [][\A t \in Callers : \A a \in Records :
            call_update(t, a) /\ bots[a.id] = NoInst =>
               /\ pc'[t] = "idle"
               /\ Size < max_concurrent_bots /\ a.agent_type \in AGENTS
                     => bots'[a.id] = nextInst /\ items'[nextInst].agent = a]_vars
    /\ [][\A t \in Callers :
            (/\ op[t] = "update" /\ pc[t] \in {"close", "await"}
             /\ pc'[t] \notin {"close", "await"}
             /\ ~cancel(t)) =>
               /\ pc'[t] = "idle"
               /\ arg[t].agent_type \in AGENTS
                     => /\ bots'[arg[t].id] \notin {NoInst, tgt[t]}
                        /\ items'[bots'[arg[t].id]].agent = arg[t]]_vars
    /\ [][\A t \in Callers : \A a \in Records :
            (/\ call_update(t, a) /\ bots[a.id] # NoInst
             /\ items[bots[a.id]].agent.discord_token = a.discord_token) =>
               /\ pc'[t] = "idle"
               /\ bots' = bots
               /\ items' = [items EXCEPT ![bots[a.id]].agent = a]]_vars

\* ---------------------------------------------------------- shutdown_all
\* the stop() of item i is under way, or over, inside a shutdown_all
StopIssued(i) == items[i].sp = "close" \/ ~items[i].running

\* the stop() of item i has failed: over, the item still Running
StopFailed(i) == items[i].sp = "none" /\ items[i].running

\* C15: shutdown_all begins the stop of every item of the pool in one step;
\* a step of one item's stop, a failing one too, leaves the other items as
\* they are; and shutdown_all returns only when the stop of every item is
\* over, with the mapping empty.
C15_ShutdownAll ==
    /\ [][\A t \in Callers :
            call_shutdown(t) => \A i \in PoolInsts : StopIssued(i)']_vars
    /\ [][\A i \in InstIds : \A o \in CloseOutcomes :
            items[i].child /\ (item_closed(i, o) \/ item_awaited(i))
               => \A j \in InstIds \ {i} : items'[j] = items[j]]_vars
    /\ [][\A t \in Callers :
            pc[t] = "gather" /\ pc'[t] = "idle" /\ ~cancel(t)
               => /\ \A i \in PoolInsts : items[i].sp = "none"
                  /\ \A a \in AgentIds : bots'[a] = NoInst]_vars

\* C15's case: inside a shutdown_all the stop of one item has failed and the
\* stop of another goes on
C15_Witness ==
    \E t \in Callers : \E i, j \in PoolInsts :
        /\ pc[t] = "gather"
        /\ StopFailed(i)
        /\ items[j].sp = "await"

\* ------------------------------------------------- the server's shutdown
\* DiscordServer.stop, the scheduler stopped: shutdown_all inside
\* asyncio.wait_for.  Whether it returns or times out, stop() logs and ends.
server_shutdown ==
    /\ Idle(Srv)
    /\ shutdown_all(Srv, "done")
    /\ UNCHANGED cycleVars

\* settings.shutdown_timeout elapses: wait_for cancels shutdown_all and waits
\* for it to end
shutdown_timeout ==
    /\ pc[Srv] = "gather"
    /\ Cancelled(Srv)
    /\ UNCHANGED cycleVars

\* shutdown_all ends: with the mapping cleared, or with the CancelledError
\* that wait_for turns into the TimeoutError the server logs as a warning
server_gathered == shutdown_gathered(Srv) /\ UNCHANGED cycleVars

\* the pool is filled and emptied by a caller while the server runs
ShutNext ==
    \/ \E a \in Records : call_init("c1", a)
    \/ \E id \in AgentIds : call_stop("c1", id)
    \/ server_shutdown
    \/ shutdown_timeout
    \/ server_gathered
    \/ \E i \in InstIds :
          \/ \E o \in CloseOutcomes : item_closed(i, o)
          \/ item_awaited(i)

\* A task that has been cancelled ends, so an `await self.task` comes back;
\* a coroutine whose awaits are all done goes on.  close() may never return.
ShutSpec ==
    /\ Init /\ [][ShutNext]_vars
    /\ WF_vars(server_gathered)
    /\ WF_vars(\E i \in InstIds : item_awaited(i))

\* the timeout has fired and shutdown_all has not ended yet
TimedOut == pc[Srv] = "gather_c"

\* C16: once the timeout has fired the server's shutdown ends, also with an
\* item whose close() never returns; it ends with the lock released and the
\* mapping as it was (the items are abandoned); and from the timeout on no
\* stop is begun on any item (nothing is retried).
C16_BoundedShutdown ==
    /\ TimedOut ~> pc[Srv] = "done"
    /\ [][TimedOut /\ pc'[Srv] = "done" => lock' = Free /\ bots' = bots]_vars
    /\ [][TimedOut => \A i \in InstIds :
                          items'[i].sp = "close" => items[i].sp = "close"]_vars
    /\ [](TimedOut => \A i \in InstIds : items[i].child => items[i].sp = "await")

\* C16's case: the timeout has fired with an item whose close() had not
\* returned; that item is left in the mapping, still marked as running,
\* while shutdown_all waits for another item's cancelled task to end
C16_Witness ==
    /\ TimedOut
    /\ lock = Srv
    /\ \E a \in AgentIds :
          /\ bots[a] # NoInst
          /\ items[bots[a]].running
          /\ items[bots[a]].sp = "none"
    /\ \E i \in InstIds : items[i].child

\* ------------------------------------------------- failures within a cycle
\* an error has left _sync_agents after the table was read: the cycle is over
CycleBroken(l) == pc[l] = "except" /\ enabled_agents[l] # NoRows

\* a record that create_agent accepts
Startable(a) == a.agent_type \in AGENTS

\* C17: when an error ends a cycle, the records that did not cause it have
\* been served all the same: an enabled record that can be started has an
\* item unless the pool is at its ceiling, an identity that is not enabled has
\* none, and an identity whose record kept its credential has the item it had.
C17_TenantIsolation ==
    \A l \in Loops : \A x \in AgentIds :
        CycleBroken(l) =>
            /\ x \in enabled_agent_ids(l) /\ Startable(enabled_agents[l][x])
                  /\ Size < max_concurrent_bots
               => bots[x] # NoInst
            /\ x \notin enabled_agent_ids(l) => bots[x] = NoInst
            /\ x \in enabled_agent_ids(l) /\ Kept(l, x) /\ ~Rotated(l, x)
               => bots[x] = current_bots[l][x]

\* ------------------------------------------------- an event is received
MaxHistory == 1
MaxChunks == 3

\* (an author check that never recognises the bot, to test C18)
never_self(message, bot_user_id) == FALSE

\* `str(message.author.id) == bot_user_id`
is_self(message, bot_user_id) == str(message.author) = bot_user_id

\* the guild and channel whitelist checks of a TextChannel or Thread event:
\* an empty list lets everything pass
whitelisted(message, agent) ==
    /\ ~(/\ agent.guild_whitelist # {}
          /\ message.channel.guild # NoId
          /\ str(message.channel.guild) \notin agent.guild_whitelist)
    /\ ~(/\ agent.channel_whitelist # {}
          /\ str(message.channel.id) \notin agent.channel_whitelist)

\* (a trigger check that lets every event pass, to test C19)
always_triggered(message, bot_user_id) == TRUE

\* the bot is among message.mentions, or message.reference.resolved is a
\* discord.Message whose author is the bot
triggered(message, bot_user_id) ==
    \/ \E m \in message.mentions : str(m) = bot_user_id
    \/ /\ message.reference.resolved = "Message"
       /\ str(message.reference.author) = bot_user_id

should_respond(message, bot_user_id, agent) ==
    IF is_self(message, bot_user_id) THEN FALSE
    ELSE IF message.channel.kind = "DMChannel" THEN agent.respond_to_dm
    ELSE IF message.channel.kind \in {"TextChannel", "Thread"}
         THEN IF ~whitelisted(message, agent) THEN FALSE
              ELSE IF triggered(message, bot_user_id) THEN TRUE
              ELSE FALSE
    ELSE FALSE

\* chat_id = f"dm-{message.author.id}"
chat_id(message) == "dm-" \o str(message.author)

\* (a handler that asks for the history in every channel, to test C21)
always_history(message) == TRUE

\* use_history = isinstance(message.channel, discord.DMChannel)
use_history(message) == message.channel.kind = "DMChannel"

\* LLMAgent.execute with history, up to the provider call: the conversation
\* is created if absent, the user turn appended, the list trimmed
Trim(turns) ==
    IF Len(turns) > MaxHistory * 2
    THEN SubSeq(turns, Len(turns) - MaxHistory * 2 + 1, Len(turns))
    ELSE turns

append_user(convs, c, content) ==
    LET old == IF c \in DOMAIN convs THEN convs[c] ELSE <<>> IN
    [k \in DOMAIN convs \cup {c} |->
        IF k = c
        THEN Trim(Append(old, [role |-> "user", content |-> content]))
        ELSE convs[k]]

user_turn(c, content) == append_user(conversations, c, content)

\* the assistant turn appended once the provider has answered: the answer to
\* the user turn of that content
append_assistant(convs, c, content) ==
    [convs EXCEPT ![c] = Append(@, [role |-> "assistant", content |-> content])]

assistant_turn(c, content) == append_assistant(conversations, c, content)

\* message.content, of which nothing is told apart here
Content == 0

\* (a handler that goes on whatever should_respond said, to test C20)
enter_anyway(responds) == "typing"

\* `if not should_respond(...): return`; otherwise the typing indicator is
\* requested
enter(responds) == IF responds THEN "typing" ELSE "returned"

\* on_message of an item whose client is logged in: handle_message is called
\* and runs to its return or to its first await
on_message(message, agent, kind) ==
    /\ handling.pc = "idle"
    /\ LET r == should_respond(message, str(BotUser), agent) IN
       handling' = [pc |-> enter(r), message |-> message,
                    bot_user_id |-> str(BotUser), agent |-> agent,
                    agent_instance |-> kind, responds |-> r, chunks |-> 0,
                    chunk |-> 0]
    /\ effects' = NoEffects
    /\ UNCHANGED <<max_concurrent_bots, splitting, poolVars, taskVars, schedVars, llmVars, conversations>>

\* (a handler that sends every chunk as a reply, to test C32)
always_reply(k) == "reply"

\* chunks[0] goes out with message.reply, every later chunk with
\* message.channel.send
dispatch_as(k) == IF k = 1 THEN "reply" ELSE "send"

\* split_message has returned n chunks (chunks counts them, chunk is the place
\* of the one being sent): with none handle_message returns, else the first
\* is sent
Dispatch(n) ==
    handling' = [handling EXCEPT !.chunks = n,
                                 !.chunk = IF n = 0 THEN 0 ELSE 1,
                                 !.pc = IF n = 0 THEN "returned" ELSE dispatch_as(1)]

\* `async with message.channel.typing()` is entered or raises; entered, the
\* agent is executed: an EchoAgent answers at once, an LLMAgent stores the
\* user turn if it is to use the history and awaits its provider
typing_entered(ok, n) ==
    /\ handling.pc = "typing"
    /\ UNCHANGED <<max_concurrent_bots, splitting, poolVars, taskVars, schedVars, llmVars>>
    /\ IF ~ok
       THEN /\ handling' = [handling EXCEPT !.pc = "error_reply"]
            /\ effects' = [effects EXCEPT !.failed = TRUE]
            /\ UNCHANGED conversations
       ELSE /\ effects' = [effects EXCEPT !.typing = TRUE, !.executed = TRUE]
            /\ IF handling.agent_instance = "echo"
               THEN /\ Dispatch(n)
                    /\ UNCHANGED conversations
               ELSE /\ handling' = [handling EXCEPT !.pc = "provider"]
                    /\ conversations' =
                          IF use_history(handling.message)
                          THEN user_turn(chat_id(handling.message), Content)
                          ELSE conversations

\* the provider answers or fails; a failure is turned into an apology text
provider_returns(ok, n) ==
    /\ handling.pc = "provider"
    /\ UNCHANGED <<max_concurrent_bots, splitting, poolVars, taskVars, schedVars, llmVars, effects>>
    /\ conversations' =
          IF ok /\ use_history(handling.message)
          THEN assistant_turn(chat_id(handling.message), Content)
          ELSE conversations
    /\ Dispatch(IF ok THEN n ELSE 1)

\* message.reply(chunks[0]) or message.channel.send(chunk) returns or raises
chunk_sent(ok) ==
    /\ handling.pc \in {"reply", "send"}
    /\ UNCHANGED <<max_concurrent_bots, splitting, poolVars, taskVars, schedVars, llmVars, conversations>>
    /\ IF ok
       THEN /\ effects' = [effects EXCEPT !.sent = Append(@, handling.pc),
                                          !.delivered = Append(@, handling.chunk)]
            /\ handling' = [handling EXCEPT
                               !.chunk = @ + 1,
                               !.pc = IF handling.chunk = handling.chunks
                                      THEN "returned"
                                      ELSE dispatch_as(handling.chunk + 1)]
       ELSE /\ handling' = [handling EXCEPT !.pc = "error_reply"]
            /\ effects' = [effects EXCEPT !.failed = TRUE]

\* (an error reply whose own failure leaves handle_message, to test C22)
escalated(ok) == IF ok THEN "returned" ELSE "raised"

\* the try around the error reply, with its bare `except: pass`
swallowed(ok) == "returned"

\* `except Exception`: the apology is replied; if that raises too it is dropped
error_replied(ok) ==
    /\ handling.pc = "error_reply"
    /\ UNCHANGED <<max_concurrent_bots, splitting, poolVars, taskVars, schedVars, llmVars, conversations>>
    /\ effects' = [effects EXCEPT
                     !.apologies = @ + 1,
                     !.sent = IF ok THEN Append(@, "error_reply") ELSE @]
    /\ handling' = [handling EXCEPT !.pc = swallowed(ok)]

\* handle_message has returned: its frame is gone
handled ==
    /\ handling.pc = "returned"
    /\ handling' = NoCall
    /\ effects' = NoEffects
    /\ UNCHANGED <<max_concurrent_bots, splitting, poolVars, taskVars, schedVars, llmVars, conversations>>

MsgNext ==
    \/ /\ handling.pc = "idle"
       /\ \E message \in Messages : \E agent \in Agents : \E kind \in AGENTS :
             on_message(message, agent, kind)
    \/ \E ok \in BOOLEAN : \E n \in 0..MaxChunks : typing_entered(ok, n)
    \/ \E ok \in BOOLEAN : \E n \in 0..MaxChunks : provider_returns(ok, n)
    \/ \E ok \in BOOLEAN : chunk_sent(ok)
    \/ \E ok \in BOOLEAN : error_replied(ok)
    \/ handled

MsgInit == Init /\ max_concurrent_bots = 1

MsgSpec == MsgInit /\ [][MsgNext]_vars

\* handle_message has been called with an event, and its frame is still there
Handled == handling.pc # "idle"

\* the event is a reply to a message the bot wrote
ReplyToBot(message) ==
    message.reference.resolved = "Message" /\ message.reference.author = BotUser

\* C18: for an event in a DMChannel should_respond is false when the author
\* is the bot itself and is the record's respond_to_dm otherwise, whatever
\* the whitelists, the mentions and the reference are.
C18_DirectMessage ==
    Handled /\ handling.message.channel.kind = "DMChannel" =>
        handling.responds = IF handling.message.author = BotUser THEN FALSE
                            ELSE handling.agent.respond_to_dm

\* C18's case: a direct message of somebody else is answered although both
\* whitelists are set, nobody is mentioned and it replies to nothing
C18_Witness ==
    /\ Handled
    /\ handling.message.channel.kind = "DMChannel"
    /\ handling.message.author # BotUser
    /\ handling.responds
    /\ handling.agent.guild_whitelist # {}
    /\ handling.agent.channel_whitelist # {}
    /\ handling.message.mentions = {}
    /\ handling.message.reference = NoReference

\* C19: for an event in a TextChannel or Thread should_respond is true only
\* if the author is not the bot, the guild whitelist is empty or holds the
\* guild, the channel whitelist is empty or holds the channel, and the bot is
\* mentioned or replied to; without mention and reply it is false; and for
\* every channel class other than these and DMChannel it is false.
C19_GroupMessage ==
    LET m == handling.message
        a == handling.agent
    IN  Handled =>
        /\ m.channel.kind \in {"TextChannel", "Thread"} /\ handling.responds =>
              /\ m.author # BotUser
              /\ a.guild_whitelist = {} \/ str(m.channel.guild) \in a.guild_whitelist
              /\ a.channel_whitelist = {} \/ str(m.channel.id) \in a.channel_whitelist
              /\ BotUser \in m.mentions \/ ReplyToBot(m)
        /\ m.channel.kind \in {"TextChannel", "Thread"}
              /\ BotUser \notin m.mentions /\ ~ReplyToBot(m)
           => ~handling.responds
        /\ m.channel.kind \notin {"DMChannel", "TextChannel", "Thread"}
           => ~handling.responds

\* C19's case: an event of a whitelisted channel of a whitelisted guild, a
\* reply to the bot that mentions nobody, is answered
C19_Witness ==
    /\ Handled
    /\ handling.message.channel.kind = "Thread"
    /\ handling.responds
    /\ handling.agent.guild_whitelist = {str(handling.message.channel.guild)}
    /\ handling.agent.channel_whitelist = {str(handling.message.channel.id)}
    /\ handling.message.mentions = {}
    /\ ReplyToBot(handling.message)

\* C20: a call of handle_message for which should_respond is false has
\* returned at once: the agent was not executed, no typing indicator was
\* requested, nothing was sent, and the conversations are as they were.
C20_NoEffects ==
    /\ [](Handled /\ ~handling.responds =>
            handling.pc = "returned" /\ effects = NoEffects)
    /\ [][(Handled /\ ~handling.responds) \/ (Handled' /\ ~handling'.responds)
            => conversations' = conversations]_vars

\* C20's case: an LLM agent that holds a conversation of the author has
\* declined a direct message of theirs
C20_Witness ==
    /\ handling.pc = "returned"
    /\ ~handling.responds
    /\ handling.agent_instance = "llm"
    /\ handling.message.channel.kind = "DMChannel"
    /\ chat_id(handling.message) \in DOMAIN conversations
    /\ effects = NoEffects

\* C21: a step that changes the conversations belongs to the handling of an
\* event of a DMChannel; the handling of an event of any other channel leaves
\* them as they are, from the call of handle_message to its return.
C21_HistoryOnlyInDM ==
    /\ [][conversations' # conversations =>
            Handled /\ handling.message.channel.kind = "DMChannel"]_vars
    /\ [][Handled /\ handling.message.channel.kind # "DMChannel" =>
            conversations' = conversations]_vars

\* C21's case: an LLM agent that holds a conversation has been executed for
\* an event of a text channel and its provider has answered
C21_Witness ==
    /\ handling.pc = "reply"
    /\ handling.message.channel.kind = "TextChannel"
    /\ handling.agent_instance = "llm"
    /\ effects.executed
    /\ chat_id(handling.message) \in DOMAIN conversations

\* C22: handle_message never ends with an exception; when it has returned,
\* the error reply was attempted once if an exception was raised by the
\* typing indicator or by a send, also after chunks that went through, and
\* not at all otherwise; it is never attempted twice.
C22_OneFallback ==
    /\ handling.pc # "raised"
    /\ effects.apologies <= 1
    /\ handling.pc = "returned" =>
          effects.apologies = IF effects.failed THEN 1 ELSE 0
    /\ handling.pc = "error_reply" => effects.failed /\ effects.apologies = 0

\* C22's case: the second chunk could not be sent after the first went
\* through, the error reply was attempted and failed too, and handle_message
\* has returned
C22_Witness ==
    /\ handling.pc = "returned"
    /\ effects.failed
    /\ effects.sent = <<"reply">>
    /\ effects.apologies = 1

\* ------------------------------------------------- LLMAgent.execute
\* the calls with the history made on one chat_id: enough to fill the
\* history and go one beyond
MaxTurns == 2 * MaxHistory + 1

\* (an execute that takes the path with history whatever it is told, to test
\* C23)
always_stateful(history) == TRUE

\* `if not use_history: return await self._generate_stateless(content)`
stateful(history) == history

\* (a provider error that leaves execute, to test C26)
Propagated(ok) == IF ok THEN "text" ELSE "raised"

\* what execute returns: the text of the provider, or, from `except
\* Exception`, the apology
Caught(ok) == IF ok THEN "text" ELSE "apology"

\* no call with the history is in flight on chat_id c
Settled(c) ==
    \A e \in Execs : ~(executing[e].pc = "provider" /\ executing[e].chat_id = c)

\* (an agent that lets one call at a time work on a conversation, to test
\* C34)
one_at_a_time(c) == Settled(c)

\* LLMAgent holds no lock: execute goes from its entry to the provider await
\* whatever other calls are in flight on the chat_id
admitted(c) == TRUE

\* execute is called and runs to the await of its provider call.  A call with
\* the history is the next turn of its chat_id, and stores the user turn.
execute(e, c, history) ==
    /\ executing[e].pc \in {"idle", "returned"}
    /\ stateful(history) => admitted(c)
    /\ UNCHANGED <<max_concurrent_bots, splitting, poolVars, taskVars, schedVars,
                   handling, effects, memories>>
    /\ IF stateful(history)
       THEN /\ calls_made[c] < MaxTurns
            /\ calls_made' = [calls_made EXCEPT ![c] = @ + 1]
            /\ conversations' = user_turn(c, calls_made[c] + 1)
            /\ executing' = [executing EXCEPT ![e] =
                               [pc |-> "provider", chat_id |-> c,
                                content |-> calls_made[c] + 1,
                                use_history |-> history, result |-> "none"]]
       ELSE /\ executing' = [executing EXCEPT ![e] =
                               [pc |-> "stateless", chat_id |-> c,
                                content |-> 0,
                                use_history |-> history, result |-> "none"]]
            /\ UNCHANGED <<conversations, calls_made>>

\* the provider call of e returns or raises, and execute runs to its end:
\* with the history the answer is stored as the assistant turn
generate_returns(e, ok) ==
    /\ executing[e].pc \in {"provider", "stateless"}
    /\ UNCHANGED <<max_concurrent_bots, splitting, poolVars, taskVars, schedVars,
                   handling, effects, calls_made, memories>>
    /\ conversations' =
          IF ok /\ executing[e].pc = "provider"
          THEN assistant_turn(executing[e].chat_id, executing[e].content)
          ELSE conversations
    /\ executing' = [executing EXCEPT
                       ![e].result = Caught(ok),
                       ![e].pc = IF Caught(ok) = "raised" THEN "raised"
                                 ELSE "returned"]

LlmNext ==
    \/ \E e \in Execs : \E c \in ChatIds : \E history \in BOOLEAN :
          execute(e, c, history)
    \/ \E e \in Execs : \E ok \in BOOLEAN : generate_returns(e, ok)

LlmSpec == Init /\ [][LlmNext]_vars

\* the calls of execute made one after the other: each has returned before
\* the next is made
TurnsNext ==
    \/ \E c \in ChatIds : \E history \in BOOLEAN : execute("e1", c, history)
    \/ \E ok \in BOOLEAN : generate_returns("e1", ok)

TurnsSpec == Init /\ [][TurnsNext]_vars

\* call e of execute begins or ends in this step
Begins(e) == executing'[e] # executing[e] /\ executing[e].pc \in {"idle", "returned"}
Ends(e) == executing'[e] # executing[e] /\ executing[e].pc \in {"provider", "stateless"}

\* C23: the steps of a call of execute with use_history false, its beginning
\* and its end, with the provider answering or failing, leave the
\* conversations as they are: keys, lengths and turns.
C23_StatelessIsolation ==
    [][\A e \in Execs :
          \/ Begins(e) /\ ~executing'[e].use_history
          \/ Ends(e) /\ ~executing[e].use_history
          => conversations' = conversations]_vars

\* C23's case: a call without the history has returned, its provider having
\* failed, on a chat_id whose conversation holds turns, while a call with the
\* history is in flight
C23_Witness ==
    \E e, f \in Execs :
        /\ executing[e].pc = "returned"
        /\ ~executing[e].use_history
        /\ executing[e].result = "apology"
        /\ executing[e].chat_id \in DOMAIN conversations
        /\ Len(conversations[executing[e].chat_id]) = 2
        /\ executing[f].pc = "provider"

\* C24: no stored conversation is longer than twice the history depth.
C24_LengthBound ==
    \A c \in DOMAIN conversations : Len(conversations[c]) <= 2 * MaxHistory

\* C25: once 2N+1 calls with the history have been made on a chat_id and
\* have returned, N the history depth, its conversation holds 2N turns, the
\* last of them the turn of the last call.
C25_MemoryBound ==
    \A c \in ChatIds :
        calls_made[c] = 2 * MaxHistory + 1 /\ Settled(c) =>
            /\ Len(conversations[c]) = 2 * MaxHistory
            /\ conversations[c][Len(conversations[c])].content = calls_made[c]

\* C26: no call of execute ends with an exception; when the provider call
\* fails, with the history or without, execute returns the apology.
C26_NoErrorOutcome ==
    /\ [](\A e \in Execs : executing[e].pc # "raised")
    /\ [][\A e \in Execs : generate_returns(e, FALSE) =>
            executing'[e].pc = "returned" /\ executing'[e].result = "apology"]_vars

\* C26's case: a call with the history and a call without have both
\* returned the apology
C26_Witness ==
    \E e, f \in Execs :
        /\ executing[e].pc = "returned" /\ executing[e].result = "apology"
        /\ executing[e].use_history
        /\ executing[f].pc = "returned" /\ executing[f].result = "apology"
        /\ ~executing[f].use_history

\* ------------------------------------------------- whose conversations
\* the rows that name the LLM agent
LlmRecords ==
    [id : AgentIds, discord_token : Tokens, respond_to_dm : {TRUE},
     agent_type : {"llm"}]

\* (one agent object kept per identity and handed to every item of that
\* identity, to test C27)
agent_of_identity(i) == items[i].aid

\* self.agent_instance of item i: create_agent, called by start(), makes a new
\* object whose __init__ sets self.conversations = {}
agent_instance(i) == i

\* the item's client is connected and hands it the events
Receiving(i) ==
    /\ items[i].live /\ items[i].running /\ items[i].task = "run"
    /\ items[i].agent.agent_type = "llm"

\* item i handles a direct message of the author of chat_id c, the first of
\* that author: its agent stores the user turn and the provider's answer
item_turn(i, c) ==
    /\ run = Free
    /\ Receiving(i)
    /\ c \notin DOMAIN memories[agent_instance(i)]
    /\ memories' = [memories EXCEPT ![agent_instance(i)] =
                       append_assistant(append_user(@, c, Content), c, Content)]
    /\ UNCHANGED <<max_concurrent_bots, splitting, poolVars, taskVars, schedVars, msgVars,
                   executing, calls_made>>

\* a caller starts and stops items, as the scheduler does when it restarts
\* the item of a rotated credential; the running items answer
OwnNext ==
    \/ \E a \in LlmRecords : call_init("c1", a)
    \/ \E id \in AgentIds : call_stop("c1", id)
    \/ \E i \in InstIds :
          \/ \E o \in CloseOutcomes : item_closed(i, o)
          \/ item_awaited(i)
          \/ \E c \in ChatIds : item_turn(i, c)

OwnSpec == Init /\ [][OwnNext]_vars

\* the conversations of the agent of identity x's item
memory_of(x) == memories[agent_instance(bots[x])]

\* C27: two items never have the same agent object, so they share no
\* conversation; and an item that enters the mapping, for an identity that
\* had an item before or not, has an agent whose conversations are empty.
C27_OwnedConversations ==
    /\ [](\A i, j \in InstIds :
            items[i].live /\ items[j].live /\ i # j =>
                agent_instance(i) # agent_instance(j))
    /\ [][\A x \in AgentIds :
            bots'[x] # NoInst /\ bots'[x] # bots[x] =>
                memory_of(x)' = NoTurns]_vars

\* C27's case: an item whose agent held a conversation was stopped, and the
\* identity has a new item, with no conversation
C27_Witness ==
    \E x \in AgentIds : \E i \in InstIds :
        /\ bots[x] # NoInst /\ bots[x] # i
        /\ items[bots[x]].running
        /\ memory_of(x) = NoTurns
        /\ ~items[i].live
        /\ memories[i] # NoTurns
        /\ \A y \in AgentIds \ {x} : bots[y] = NoInst
        /\ \A k \in InstIds \ {i, bots[x]} : ~items[k].live /\ memories[k] = NoTurns

\* ------------------------------------------------- utils/message_splitter.py
\* A text is a sequence of characters.  "a" stands for every character that
\* is neither whitespace, nor one of . ! ?, nor a backtick; NL is the line feed.
MaxLen == 4
MaxBody == 2
MaxAround == 1
MaxLength == 3

NL == "\n"
\* the backtick
Grave == "grave"
Alphabet == {"a", " ", ".", Grave, NL}
TextsUpTo(n) == UNION {[1..k -> Alphabet] : k \in 0..n}

\* \s of the regular expressions, and the whitespace of split() and strip()
IsSpace(ch) == ch \in {" ", NL}
\* [.!?]
IsPunct(ch) == ch \in {".", "!", "?"}

\* the fence of a code block: three backticks
Fence == <<Grave, Grave, Grave>>

\* the texts that are split: every text of up to MaxLen characters, and every
\* fenced block of up to MaxBody characters with up to MaxAround characters
\* before it and after it
Texts ==
    TextsUpTo(MaxLen)
      \cup {pre \o Fence \o body \o Fence \o post :
              pre \in TextsUpTo(MaxAround), body \in TextsUpTo(MaxBody),
              post \in TextsUpTo(MaxAround)}

Least(S) == CHOOSE i \in S : \A j \in S : i <= j

startswith(s, p) == Len(s) >= Len(p) /\ SubSeq(s, 1, Len(p)) = p
endswith(s, p) == Len(s) >= Len(p) /\ SubSeq(s, Len(s) - Len(p) + 1, Len(s)) = p

\* the first place at or after from where p occurs in s, 0 if there is none
Find(s, p, from) ==
    LET I == {i \in from..(Len(s) - Len(p) + 1) : SubSeq(s, i, i + Len(p) - 1) = p}
    IN  IF I = {} THEN 0 ELSE Least(I)

\* the test that the fence is in content
HasFence(s) == Find(s, Fence, 1) # 0

\* s.strip()
RECURSIVE lstrip(_)
lstrip(s) == IF s # <<>> /\ IsSpace(Head(s)) THEN lstrip(Tail(s)) ELSE s
RECURSIVE rstrip(_)
rstrip(s) ==
    IF s # <<>> /\ IsSpace(s[Len(s)]) THEN rstrip(SubSeq(s, 1, Len(s) - 1)) ELSE s
strip(s) == rstrip(lstrip(s))

\* s.split(): the runs of characters that are not whitespace
RECURSIVE words_of(_)
words_of(s) ==
    LET t == lstrip(s)
        E == {i \in 1..Len(t) : IsSpace(t[i])}
    IN  IF t = <<>> THEN <<>>
        ELSE IF E = {} THEN <<t>>
        ELSE <<SubSeq(t, 1, Least(E) - 1)>> \o words_of(SubSeq(t, Least(E), Len(t)))

\* s.split("\n")
RECURSIVE lines_of(_)
lines_of(s) ==
    LET i == Find(s, <<NL>>, 1) IN
    IF i = 0 THEN <<s>>
    ELSE <<SubSeq(s, 1, i - 1)>> \o lines_of(SubSeq(s, i + 1, Len(s)))

\* re.split on a fence, anything, the nearest fence, captured: the text before the first fence that has
\* a closing fence, the block up to the nearest closing fence, and the split
\* of what follows
RECURSIVE code_parts(_)
code_parts(s) ==
    LET i == Find(s, Fence, 1)
        j == IF i = 0 THEN 0 ELSE Find(s, Fence, i + 3)
    IN  IF j = 0 THEN <<s>>
        ELSE <<SubSeq(s, 1, i - 1), SubSeq(s, i, j + 2)>>
             \o code_parts(SubSeq(s, j + 3, Len(s)))

\* the last place of the run of characters of one class that begins at i
RECURSIVE RunEnd(_, _, _)
RunEnd(s, i, punct) ==
    IF i < Len(s) /\ (IF punct THEN IsPunct(s[i + 1]) ELSE IsSpace(s[i + 1]))
    THEN RunEnd(s, i + 1, punct) ELSE i

\* [.!?]+\s+ matches at i
SentenceEnd(s, i) ==
    /\ IsPunct(s[i])
    /\ RunEnd(s, i, TRUE) < Len(s)
    /\ IsSpace(s[RunEnd(s, i, TRUE) + 1])

\* re.split(r"([.!?]+\s+)", s): sentence, separator, sentence, ...
RECURSIVE sentences_of(_)
sentences_of(s) ==
    LET I == {i \in 1..Len(s) : SentenceEnd(s, i)} IN
    IF I = {} THEN <<s>>
    ELSE LET i == Least(I)
             e == RunEnd(s, RunEnd(s, i, TRUE) + 1, FALSE)
         IN  <<SubSeq(s, 1, i - 1), SubSeq(s, i, e)>>
             \o sentences_of(SubSeq(s, e + 1, Len(s)))

\* word[i:i + max_length] for i in range(0, len(word), max_length)
RECURSIVE slices(_, _)
slices(word, max_length) ==
    IF word = <<>> THEN <<>>
    ELSE IF Len(word) <= max_length THEN <<word>>
    ELSE <<SubSeq(word, 1, max_length)>>
         \o slices(SubSeq(word, max_length + 1, Len(word)), max_length)

\* chunks[:-1] and chunks[-1] if chunks else ""
AllButLast(chunks) == SubSeq(chunks, 1, Len(chunks) - 1)
LastOr(chunks) == IF chunks = <<>> THEN <<>> ELSE chunks[Len(chunks)]

\* if current_chunk: chunks.append(current_chunk.strip())
Flush(chunks, current_chunk) ==
    IF current_chunk # <<>> THEN Append(chunks, strip(current_chunk)) ELSE chunks

\* the for loop of _split_by_words from word k on
RECURSIVE by_words_loop(_, _, _, _, _)
by_words_loop(words, k, chunks, current_chunk, max_length) ==
    IF k > Len(words) THEN Flush(chunks, current_chunk)
    ELSE LET word == words[k] IN
         IF Len(current_chunk) + Len(word) + 1 > max_length
         THEN IF Len(word) > max_length
              THEN by_words_loop(words, k + 1,
                                 Flush(chunks, current_chunk) \o slices(word, max_length),
                                 <<>>, max_length)
              ELSE by_words_loop(words, k + 1, Flush(chunks, current_chunk),
                                 word, max_length)
         ELSE by_words_loop(words, k + 1, chunks,
                            current_chunk
                              \o (IF current_chunk # <<>> THEN <<" ">> ELSE <<>>)
                              \o word,
                            max_length)

split_by_words(content, max_length) ==
    by_words_loop(words_of(content), 1, <<>>, <<>>, max_length)

\* the for loop of _split_simple from sentences[i] on (i counts from 1)
RECURSIVE simple_loop(_, _, _, _, _)
simple_loop(sentences, i, chunks, current_chunk, max_length) ==
    IF i > Len(sentences) THEN Flush(chunks, current_chunk)
    ELSE LET full_sentence ==
                 sentences[i] \o (IF i + 1 <= Len(sentences) THEN sentences[i + 1]
                                  ELSE <<>>)
         IN  IF Len(current_chunk) + Len(full_sentence) > max_length
             THEN IF Len(full_sentence) > max_length
                  THEN LET word_chunks == split_by_words(full_sentence, max_length) IN
                       simple_loop(sentences, i + 2,
                                   Flush(chunks, current_chunk) \o AllButLast(word_chunks),
                                   LastOr(word_chunks), max_length)
                  ELSE simple_loop(sentences, i + 2, Flush(chunks, current_chunk),
                                   full_sentence, max_length)
             ELSE simple_loop(sentences, i + 2, chunks,
                              current_chunk \o full_sentence, max_length)

split_simple(content, max_length, preserve_sentences) ==
    IF preserve_sentences
    THEN simple_loop(sentences_of(content), 1, <<>>, <<>>, max_length)
    ELSE split_by_words(content, max_length)

\* the for loop over lines[1:-1] of a code block that is too long, from
\* lines[k] on: the chunk is closed and a new one opened with the first line
RECURSIVE block_loop(_, _, _, _, _, _)
block_loop(lines, k, code_lang, chunks, temp_chunk, max_length) ==
    IF k > Len(lines) - 1 THEN <<chunks, temp_chunk>>
    ELSE LET line == lines[k] IN
         IF Len(temp_chunk) + Len(line) + 5 > max_length
         THEN block_loop(lines, k + 1, code_lang,
                         Append(chunks, temp_chunk \o Fence),
                         code_lang \o <<NL>> \o line \o <<NL>>, max_length)
         ELSE block_loop(lines, k + 1, code_lang, chunks,
                         temp_chunk \o line \o <<NL>>, max_length)

\* if current_chunk: chunks.append(current_chunk)
Push(chunks, current_chunk) ==
    IF current_chunk # <<>> THEN Append(chunks, current_chunk) ELSE chunks

\* the for loop of _split_with_code_blocks from parts[k] on
RECURSIVE parts_loop(_, _, _, _, _)
parts_loop(parts, k, chunks, current_chunk, max_length) ==
    IF k > Len(parts) THEN Push(chunks, current_chunk)
    ELSE LET part == parts[k]
             is_code_block == startswith(part, Fence) /\ endswith(part, Fence)
         IN
         IF is_code_block
         THEN IF Len(part) > max_length
              THEN LET lines == lines_of(part)
                       code_lang == lines[1]
                       done == block_loop(lines, 2, code_lang, chunks,
                                          code_lang \o <<NL>>, max_length)
                   IN  parts_loop(parts, k + 1,
                                  Append(Push(done[1], current_chunk), done[2] \o Fence),
                                  <<>>, max_length)
              ELSE IF Len(current_chunk) + Len(part) > max_length
                   THEN parts_loop(parts, k + 1, Push(chunks, current_chunk), part,
                                   max_length)
                   ELSE parts_loop(parts, k + 1, chunks, current_chunk \o part,
                                   max_length)
         ELSE IF Len(current_chunk) + Len(part) > max_length
              THEN LET text_chunks == split_simple(part, max_length, TRUE) IN
                   parts_loop(parts, k + 1,
                              Push(chunks, current_chunk) \o AllButLast(text_chunks),
                              LastOr(text_chunks), max_length)
              ELSE parts_loop(parts, k + 1, chunks, current_chunk \o part, max_length)

split_with_code_blocks(content, max_length) ==
    parts_loop(code_parts(content), 1, <<>>, <<>>, max_length)

\* split_message with its defaults preserve_code_blocks = preserve_sentences
\* = True, as handle_message calls it
split_message(content, max_length) ==
    IF Len(content) <= max_length THEN <<content>>
    ELSE IF HasFence(content) THEN split_with_code_blocks(content, max_length)
    ELSE split_simple(content, max_length, TRUE)

estimate_chunks(content, max_length) ==
    IF Len(content) <= max_length THEN 1
    ELSE (Len(content) + max_length - 1) \div max_length

\* nothing has been split yet
NoSplit == [pc |-> "idle", content |-> <<>>, max_length |-> 1, chunks |-> <<>>,
            estimate |-> 0]

\* split_message is called
split_called(content, max_length) ==
    /\ splitting.pc = "idle"
    /\ splitting' = [pc |-> "split", content |-> content, max_length |-> max_length,
                     chunks |-> split_message(content, max_length), estimate |-> 0]
    /\ UNCHANGED <<max_concurrent_bots, poolVars, taskVars, schedVars, msgVars, llmVars>>

\* estimate_chunks is called with the text and the limit of the split
estimate_called ==
    /\ splitting.pc = "split"
    /\ splitting' = [splitting EXCEPT
                       !.pc = "estimated",
                       !.estimate = estimate_chunks(splitting.content,
                                                    splitting.max_length)]
    /\ UNCHANGED <<max_concurrent_bots, poolVars, taskVars, schedVars, msgVars, llmVars>>

\* the results are dropped
split_dropped ==
    /\ splitting.pc = "estimated"
    /\ splitting' = NoSplit
    /\ UNCHANGED <<max_concurrent_bots, poolVars, taskVars, schedVars, msgVars, llmVars>>

SplitNext ==
    \/ /\ splitting.pc = "idle"
       /\ \E content \in Texts : \E max_length \in 1..MaxLength :
             split_called(content, max_length)
    \/ estimate_called
    \/ split_dropped

SplitSpec == Init /\ [][SplitNext]_vars

\* the chunks one after the other
RECURSIVE Concat(_)
Concat(chunks) == IF chunks = <<>> THEN <<>> ELSE Head(chunks) \o Concat(Tail(chunks))

\* the text without its whitespace
RECURSIVE Inked(_)
Inked(s) ==
    IF s = <<>> THEN <<>>
    ELSE IF IsSpace(Head(s)) THEN Inked(Tail(s))
    ELSE <<Head(s)>> \o Inked(Tail(s))

Split == splitting.pc # "idle"

\* C28: every chunk of split_message(content, max_length) is at most
\* max_length long, with a fence in the text or without; and a text that is at
\* most max_length long comes back as the one chunk.
C28_ChunkLength ==
    Split =>
        /\ \A k \in 1..Len(splitting.chunks) :
              Len(splitting.chunks[k]) <= splitting.max_length
        /\ Len(splitting.content) <= splitting.max_length =>
              splitting.chunks = <<splitting.content>>

\* C29: the chunks of split_message, one after the other, are the text, up to
\* whitespace: the same characters other than whitespace in the same order.
C29_RoundTrip ==
    Split => Inked(Concat(splitting.chunks)) = Inked(splitting.content)

\* C30: for a text without a fence estimate_chunks is the number of chunks
\* split_message returns.
C30_Estimate ==
    splitting.pc = "estimated" /\ ~HasFence(splitting.content) =>
        splitting.estimate = Len(splitting.chunks)

\* --------------------------------------------- BotPoolItem.start and stop
\* start() called on item i of the mapping by code that holds the item (the
\* pool itself calls start() only on the item it has just built).  On a
\* running item the warning is logged and nothing else is done; on an item
\* that is not running a client, an agent instance and a background task are
\* made, unless create_agent raises.
item_start(i) ==
    /\ run = Free
    /\ i \in PoolInsts
    /\ IF items[i].running
       THEN log' = "running" /\ items' = items
       ELSE IF create_agent_ok(items[i].agent)
       THEN /\ log' = "info"
            /\ items' = [items EXCEPT ![i].running = TRUE, ![i].bot = "client",
                                      ![i].task = "run"]
       ELSE /\ log' = "raised"
            /\ items' = [items EXCEPT ![i].bot = "client"]
    /\ UNCHANGED <<max_concurrent_bots, splitting, msgVars, llmVars, bots, lock, nextInst,
                   taskVars, schedVars>>

ItemNext ==
    \/ Next
    \/ \E i \in InstIds : item_start(i)

ItemSpec == Init /\ [][ItemNext]_vars

\* the stop() of item i comes back in this step: its last await returns or
\* raises (a stop() that is cancelled does not come back)
ItemStopReturns(i) ==
    /\ items[i].sp # "none" /\ items'[i].sp = "none"
    /\ \A t \in Callers : ~cancel(t)

\* C31: start() on a running item is a no-op: no other client, agent instance
\* or task; stop() on an item that is not running is a no-op, the caller goes
\* on at once; stop() on a running item marks it stopped only after the close
\* and the await of the cancelled task, and every stop() that returns leaves
\* the item not running.
C31_Lifecycle ==
    /\ [][\A i \in InstIds : item_start(i) /\ items[i].running => items' = items]_vars
    /\ [][\A t \in Callers : \A id \in AgentIds :
            (call_stop(t, id) /\ bots[id] # NoInst /\ ~items[bots[id]].running)
               => pc'[t] = "idle" /\ ~items'[bots[id]].running]_vars
    /\ [](\A i \in InstIds : items[i].sp \in {"close", "await"} => items[i].running)
    /\ [][\A i \in InstIds : ItemStopReturns(i) => ~items'[i].running]_vars

\* ------------------------------------------------ the order of the sends
\* the sends of chunks that went through, the error reply left out
ChunkSends == SelectSeq(effects.sent, LAMBDA w : w # "error_reply")

\* C32: the chunks are sent in their order, each once: the first with
\* message.reply, the later ones with message.channel.send; a send is issued
\* only when every chunk before it has gone through; and a call that returns
\* without a failure has sent them all.
C32_DispatchOrder ==
    /\ Len(effects.delivered) = Len(ChunkSends)
    /\ \A j \in 1..Len(effects.delivered) :
          /\ effects.delivered[j] = j
          /\ ChunkSends[j] = IF j = 1 THEN "reply" ELSE "send"
    /\ handling.pc \in {"reply", "send"} =>
          /\ handling.chunk = Len(effects.delivered) + 1
          /\ handling.chunk <= handling.chunks
          /\ handling.pc = "reply" <=> handling.chunk = 1
    /\ handling.pc = "returned" /\ handling.responds /\ ~effects.failed =>
          Len(effects.delivered) = handling.chunks

\* C32's case: three chunks have gone out, the first as the reply, and
\* handle_message has returned
C32_Witness ==
    /\ handling.pc = "returned"
    /\ handling.chunks = 3
    /\ effects.sent = <<"reply", "send", "send">>
    /\ effects.delivered = <<1, 2, 3>>

\* C33: in every stored conversation, after any calls of execute with the
\* history made one after the other (the provider answering or failing, the
\* list trimmed or not), no two adjacent turns have the same role.
C33_RoleAlternation ==
    \A c \in DOMAIN conversations :
        Settled(c) =>
            \A j \in 1..(Len(conversations[c]) - 1) :
                conversations[c][j].role # conversations[c][j + 1].role

\* ------------------------------------------- two calls on one conversation
\* call f with the history is suspended at its provider call on chat_id c
AtProvider(f, c) == executing[f].pc = "provider" /\ executing[f].chat_id = c

\* C34: nothing keeps a call of execute with the history from starting while
\* another one is suspended at its provider call on the same chat_id, and the
\* call that starts stores its user turn behind the turns stored so far: two
\* user turns can be stored before either assistant turn.
C34_Race ==
    /\ [](\A e, f \in Execs : \A c \in ChatIds :
            (/\ e # f /\ AtProvider(f, c)
             /\ executing[e].pc \in {"idle", "returned"}
             /\ calls_made[c] < MaxTurns)
               => ENABLED execute(e, c, TRUE))
    /\ [][\A e, f \in Execs : \A c \in ChatIds :
            (e # f /\ AtProvider(f, c) /\ execute(e, c, TRUE)) =>
               /\ AtProvider(e, c)' /\ AtProvider(f, c)'
               /\ conversations'[c] =
                     Trim(Append(conversations[c],
                                 [role |-> "user", content |-> executing'[e].content]))]_vars

\* C34's case: two calls are suspended at their provider calls on one chat_id
\* whose conversation is the two user turns
C34_Witness ==
    \E c \in ChatIds :
        /\ AtProvider("e1", c) /\ AtProvider("e2", c)
        /\ Len(conversations[c]) = 2
        /\ conversations[c][1].role = "user" /\ conversations[c][2].role = "user"

\* ------------------------------------------------ the pool's calls return
\* The pool and its callers, with the awaits inside the pool coming back:
\* close() returns or raises, the cancelled task ends, gather gets its
\* results.  Nothing is assumed about the lock.
LiveSpec ==
    /\ Spec
    /\ \A i \in InstIds :
          /\ WF_vars(\E o \in CloseOutcomes : item_closed(i, o))
          /\ WF_vars(item_awaited(i))
    /\ \A t \in Callers : WF_vars(call_gathered(t))

\* C35: every call of init_new_bot, stop_bot, update_bot and shutdown_all
\* returns in the end, the lock released: update_bot for an identity that is
\* absent and update_bot with a changed credential too.
C35_NoDeadlock ==
    \A t \in Callers : (pc[t] # "idle") ~> (pc[t] = "idle" /\ lock # t)

\* --------------------------------------------- one cycle, within capacity
\* the enabled rows a cycle has read fit the capacity ceiling
Fits(l) == Cardinality(enabled_agent_ids(l)) <= max_concurrent_bots

\* C36: when the enabled identities a cycle has read are no more than
\* max_concurrent_bots, the identities of the pool at the end of the complete
\* cycle are the enabled ones, also when the pool was full as the cycle began
\* and the cycle had to start some identities and stop others.
C36_OneCycle ==
    \A l \in Loops : CycleDone(l) /\ Fits(l) => PoolIds = enabled_agent_ids(l)

\* ------------------------------------------------- convergence in the end
\* The scheduler with its tasks running on: the event loop resumes a task
\* that is ready, the sleep ends, and the awaits inside the pool come back.
FairSchedSpec ==
    /\ SchedSpec
    /\ \A l \in Loops :
          /\ WF_vars(\E f \in {"rows", "raise"} : run_loop(l, f))
          /\ WF_vars(sync_new(l))
          /\ WF_vars(sync_rem(l))
          /\ WF_vars(sync_chk(l))
          /\ WF_vars(restart(l))
          /\ WF_vars(sync_end(l))
          /\ WF_vars(loop_except(l))
    /\ \A i \in InstIds :
          /\ WF_vars(\E o \in CloseOutcomes : item_closed(i, o))
          /\ WF_vars(item_awaited(i))

\* the scheduler is running, the enabled rows fit the capacity ceiling and
\* name agent types that can be created
Calm ==
    /\ running
    /\ Cardinality(Ids(store)) <= max_concurrent_bots
    /\ \A a \in Ids(store) : create_agent_ok(store[a])

\* the table is read without an error
Reachable == \A l \in Loops : ~run_loop(l, "raise")

\* the pool holds the enabled identities, each item with the credential of
\* its row
Converged ==
    /\ PoolIds = Ids(store)
    /\ \A a \in PoolIds : items[bots[a]].agent.discord_token = store[a].discord_token

\* no instance is left to construct
Exhausted == nextInst > MaxInst

\* C37: if from some point on the table does not change and is read without
\* error, the scheduler is running, and the enabled rows fit the capacity and
\* can be started, then from some point on the pool holds the enabled
\* identities, each item with the current credential of its row (as long as
\* instances are left to construct).
C37_EventualConvergence ==
    (/\ <>[]Calm
     /\ <>[][store' = store]_vars
     /\ <>[][Reachable]_vars)
        => <>[](Converged \/ Exhausted)

\* C37's case: the table is calm and a cycle has ended with the pool
\* converged, an identity holding an item that is not the first one built,
\* and instances are left
C37_Witness ==
    /\ Calm /\ Converged /\ ~Exhausted
    /\ \E a \in PoolIds : bots[a] > 1
    /\ \E l \in Loops : pc[l] = "sleep"

\* ------------------------------------- the scheduler and another caller
\* A task that finds the lock held waits for it: asyncio.Lock queues the
\* waiters, release() wakes the first of them, and acquire() takes a free
\* lock at once only when no waiter is queued.  A waiting caller is at
\* "lockwait" with its call in op and arg; a waiting loop task stays at its
\* place in the cycle, not running.
Waiters == {t \in Callers : pc[t] = "lockwait"}

\* `async with self._lock` in a call of init_new_bot or stop_bot by caller
\* t, while the lock is held
caller_waits(t, o, a) ==
    /\ Idle(t) /\ ~LockFree
    /\ a.id # NoId
    /\ Suspend(t, o, a, NoInst, "lockwait", "idle")
    /\ UNCHANGED <<max_concurrent_bots, splitting, msgVars, llmVars, poolVars, schedVars>>

\* the lock was released and the waiting caller has it: its call goes on
waiter_runs(t) ==
    /\ run = Free /\ pc[t] = "lockwait"
    /\ IF op[t] = "init"
       THEN init_new_bot(t, arg[t], "idle")
       ELSE stop_bot(t, arg[t].id, "idle")
    /\ UNCHANGED cycleVars

\* the step the loop task is about to make calls the pool
PoolCall(l) ==
    \/ pc[l] \in {"sync_new", "sync_rem"} /\ todo[l] # {}
    \/ pc[l] = "restart"
    \/ /\ pc[l] = "sync_chk"
       /\ \E a \in todo[l] :
             bots[a] # NoInst /\ TokenChanged(items[bots[a]], enabled_agents[l][a])

\* the loop task calls the pool and finds the lock held, or a waiter queued
\* before it: it waits
loop_waits(l) ==
    /\ run = l /\ PoolCall(l)
    /\ ~LockFree \/ Waiters # {}
    /\ run' = Free
    /\ UNCHANGED <<max_concurrent_bots, splitting, msgVars, llmVars, poolVars, pc, op, arg, tgt,
                   cancelReq, ret, schedVars>>

\* the lock is free and no waiter is before the loop task: it goes on
loop_resumes(l) ==
    /\ run = Free /\ pc[l] \in {"sync_new", "sync_rem", "sync_chk", "restart"}
    /\ LockFree /\ Waiters = {}
    /\ run' = l
    /\ UNCHANGED <<max_concurrent_bots, splitting, msgVars, llmVars, poolVars, pc, op, arg, tgt,
                   cancelReq, ret, schedVars>>

\* the record a stop_bot(id) is remembered by while its caller waits
StopArg(id) == [NoAgent EXCEPT !.id = id]

\* the rows of the table and the records of the caller: for each identity
\* each credential, the other fields the same
MixRecords == {r \in Records : r.respond_to_dm /\ r.agent_type = "echo"}

\* The scheduler's loop and one other caller of init_new_bot and stop_bot.  A
\* step of the cycle that calls the pool is made only with no waiter queued.
MixNext ==
    \/ \E a \in AgentIds : \E r \in MixRecords \cup {NoAgent} : store_write(a, r)
    \/ start
    \/ \E l \in Loops :
          \/ \E f \in {"rows", "raise"} : run_loop(l, f)
          \/ sync_new(l) /\ (todo[l] = {} \/ Waiters = {})
          \/ sync_rem(l) /\ (todo[l] = {} \/ Waiters = {})
          \/ sync_chk(l) /\ (agent_id'[l] = NoId \/ Waiters = {})
          \/ restart(l) /\ Waiters = {}
          \/ sync_end(l)
          \/ loop_except(l)
          \/ loop_waits(l)
          \/ loop_resumes(l)
    \/ \E i \in InstIds :
          \/ \E o \in CloseOutcomes : item_closed(i, o)
          \/ item_awaited(i)
    \/ \E a \in MixRecords : call_init("c1", a) \/ caller_waits("c1", "init", a)
    \/ \E id \in AgentIds :
          call_stop("c1", id) \/ caller_waits("c1", "stop", StopArg(id))
    \/ waiter_runs("c1")

MixSpec == Init /\ [][MixNext]_vars

\* the loop task l is between the stop_bot and the init_new_bot of a restart
Restarting(l) == pc[l] = "restart"

\* C38: from the return of the restart's stop_bot to its init_new_bot no
\* other task takes the lock or changes the mapping, and the init_new_bot of
\* a record that can be started puts the identity back into the mapping.
C38_AtomicRestart ==
    /\ [][\A l \in Loops :
            Restarting(l) /\ Restarting(l)' =>
               bots' = bots /\ lock' = lock /\ nextInst' = nextInst]_vars
    /\ [][\A l \in Loops :
            (restart(l) /\ create_agent_ok(enabled_agents[l][agent_id[l]]))
               => bots'[agent_id[l]] # NoInst]_vars

\* ------------------------------------------------------ DiscordServer.stop
\* DiscordServer.stop after `await self.scheduler.stop()` has returned:
\* shutdown_all is called, under wait_for
server_stop == ~running /\ server_shutdown

\* The scheduler, the table and the server task: the server starts the
\* scheduler, and stops it before it shuts the pool down.
DownNext ==
    \/ SchedNext
    \/ server_stop
    \/ shutdown_timeout
    \/ server_gathered

DownSpec == Init /\ [][DownNext]_vars

\* the server is in shutdown_all, or has left it
ShuttingDown == pc[Srv] \in {"gather", "gather_c", "done"}

\* C39: shutdown_all is called with the scheduler stopped and its loop task
\* done; from then on no loop task is alive, so no cycle adds an item; a
\* shutdown_all that ends without the timeout leaves the mapping empty, and
\* nothing changes the pool after the server's stop.
C39_ShutdownOrder ==
    /\ [][server_stop => ~running /\ \A l \in Loops : ~Alive(l)]_vars
    /\ [](ShuttingDown => ~running /\ \A l \in Loops : ~Alive(l))
    /\ [][pc[Srv] = "gather" /\ pc'[Srv] = "done" => PoolIds' = {}]_vars
    /\ [][pc[Srv] = "done" => UNCHANGED <<bots, items, nextInst, lock>>]_vars

\* C39's case: the scheduler had started items, one of them in place of an
\* older one; it was stopped, its loop task is done, and the shutdown has
\* ended in time with the mapping empty
C39_Witness ==
    /\ pc[Srv] = "done" /\ log = "info"
    /\ PoolIds = {}
    /\ nextInst > 2
    /\ \E l \in Loops : pc[l] = "done"

\* ------------------------------------------------------- no orphaned item
\* C40: every item whose _running is true is an item of the mapping: an item
\* that stop_bot, a restart or shutdown_all has removed is not running, also
\* when its close() raised an error that stop() swallowed.
C40_NoOrphan ==
    \A i \in InstIds : items[i].running => i \in PoolInsts

=============================================================================
